---- MODULE Spec2Model ----
(***************************************************************************)
(* ExeKG: construction and execution of executable knowledge-graph         *)
(* pipelines (exe_kg_lib/classes/exe_kg.py).                               *)
(*                                                                         *)
(* A graph is a set of triples <<s, p, o>>.  A term is a 3-tuple: an IRI   *)
(* <<"iri", namespace, fragment>> (the text before and after "#"), or a    *)
(* literal <<"lit", value, datatype>>.  Python's None is NoIri / "".       *)
(***************************************************************************)
EXTENDS Integers, Sequences, FiniteSets, TLC

VARIABLES
    output_kg,          \* self.output_kg of the constructing engine
    task_type_dict,     \* self.task_type_dict
    method_type_dict,   \* self.method_type_dict
    last_created_task,  \* self.last_created_task (NoTask is None)
    halted,             \* the constructing process has terminated on a fatal error
    entities,           \* DataEntity objects the caller holds (described, or returned in a task)
    issued,             \* history: <<kind, type, name>> of every name name_instance returned
    created,            \* history: the successful add_task calls, in order
    last_call,          \* history: the last construction call and the graph before it
    standalone,         \* history: the number of add_inputs_to_task / add_outputs_to_task calls of
                        \* the caller
    cli,                \* start_pipeline_creation: its position, prev_task, data_entities_list
    saved_kg,           \* the triples of the file written by save_created_kg
    saved_ns,           \* the <<prefix, namespace>> bindings of that file
    bottom_level_schema, \* name of the bottom-level schema the executing engine chose
    input_kg,           \* self.input_kg of the executing engine
    pc,                 \* position of execute_pipeline
    next_task_iri,      \* local next_task_iri of execute_pipeline
    canvas_method,      \* local canvas_method of execute_pipeline (0 is None, k the k-th object)
    error,              \* the fatal error that ended the run: <<kind, the task it ended at,
                        \* the task its message names>>
    visited,            \* history: the task objects parse_task_by_iri returned and the run ran,
                        \* each with the map its run_method was given and what it returned
    task_output_dict,   \* local task_output_dict of execute_pipeline
    parsed,             \* the last parse_data_entity_by_iri call of a caller: <<IRI, result>>
    task_obj,           \* local task of parse_task_by_iri, while its fields are populated
    todo,               \* the triples of the task the loop of parse_task_by_iri has yet to visit
    schema_kg,          \* the three schema graphs KGSchema.from_schema_info loaded, combined
    other               \* a second constructing engine of the same process: its output_kg,
                        \* task_type_dict, method_type_dict, last_created_task, and the
                        \* history of the names it issued

vars == <<schema_kg, other, output_kg, task_type_dict, method_type_dict, last_created_task, halted,
          entities, issued, created, last_call, standalone, cli, saved_kg, saved_ns,
          bottom_level_schema, input_kg, pc,
          next_task_iri, canvas_method, error, visited, task_output_dict, parsed, task_obj,
          todo>>

consVars == <<output_kg, task_type_dict, method_type_dict, last_created_task, halted,
              entities, issued, created, last_call, standalone, cli, schema_kg, other>>

execVars == <<bottom_level_schema, input_kg, pc, next_task_iri, canvas_method, error, visited,
              task_output_dict, parsed, task_obj, todo, schema_kg, other>>

-----------------------------------------------------------------------------
(* Bounds *)

\* construction calls that create a task, per session
MaxTasks == 2

\* add_inputs_to_task / add_outputs_to_task calls the caller makes itself, per session
MaxStandalone == 1

\* nested data entities followed while one value is parsed
MaxNesting == 3

-----------------------------------------------------------------------------
(* Terms *)

Iri(ns, name) == <<"iri", ns, name>>
Lit(value, datatype) == <<"lit", value, datatype>>
NoIri == <<"none", "", "">>

IsIri(t) == t[1] = "iri"

\* iri.split("#")[1]
Fragment(iri) == iri[3]

\* Python's "#" in str(o): true of every IRI of these graphs, of no literal used here
HasHash(t) == IsIri(t)

TOP == "ds"        \* self.top_level_schema.namespace
BOTTOM == "stats"  \* self.bottom_level_schema.namespace
VISU == "visu"     \* self.visu_schema.namespace

RDF_TYPE == Iri("rdf", "type")
SUBCLASS == Iri("rdfs", "subClassOf")
SUBPROP == Iri("rdfs", "subPropertyOf")
DOMAIN_ == Iri("rdfs", "domain")
RANGE_ == Iri("rdfs", "range")

AtomicTaskIri == Iri(TOP, "AtomicTask")
AtomicMethodIri == Iri(TOP, "AtomicMethod")
DataEntityIri == Iri(TOP, "DataEntity")
PipelineIri == Iri(TOP, "Pipeline")
HasInput == Iri(TOP, "hasInput")
HasOutput == Iri(TOP, "hasOutput")
HasMethod == Iri(TOP, "hasMethod")
HasNextTask == Iri(TOP, "hasNextTask")
HasStartTask == Iri(TOP, "hasStartTask")
HasReference == Iri(TOP, "hasReference")
HasSource == Iri(TOP, "hasSource")
HasDataSemantics == Iri(TOP, "hasDataSemantics")
HasDataStructure == Iri(TOP, "hasDataStructure")
HasInputDataPath == Iri(TOP, "hasInputDataPath")

XsdString == Iri("xsd", "string")
XsdInt == Iri("xsd", "int")

Range(s) == {s[i] : i \in DOMAIN s}

-----------------------------------------------------------------------------
(* The schema graphs: a small ontology in the shape of the ExeKG ones.     *)
(* Two task classes of the bottom-level schema declare the same output     *)
(* class; one task class has two input slots and two compatible methods,   *)
(* and one of its (task, method) pairs has no Python class; one data       *)
(* property is declared for a superclass of a method class.                *)

\* rows <<relation, task class, slot/method class>> in document order
InputRows ==
    << <<Iri(BOTTOM, "hasNormalizationInput"), Iri(BOTTOM, "NormalizationTask"),
         Iri(BOTTOM, "DataInNormalization")>>,
       <<Iri(BOTTOM, "hasTrendInput"), Iri(BOTTOM, "TrendCalculationTask"),
         Iri(BOTTOM, "DataInTrendCalculation")>>,
       <<Iri(BOTTOM, "hasTrendBaseline"), Iri(BOTTOM, "TrendCalculationTask"),
         Iri(BOTTOM, "DataInTrendBaseline")>> >>

OutputRows ==
    << <<Iri(BOTTOM, "hasNormalizationOutput"), Iri(BOTTOM, "NormalizationTask"),
         Iri(BOTTOM, "DataOutVector")>>,
       <<Iri(BOTTOM, "hasTrendOutput"), Iri(BOTTOM, "TrendCalculationTask"),
         Iri(BOTTOM, "DataOutVector")>> >>

MethodRows ==
    << <<Iri(VISU, "hasCanvasMethod"), Iri(VISU, "CanvasTask"), Iri(VISU, "CanvasMethod")>>,
       <<Iri(BOTTOM, "hasNormalizationMethod"), Iri(BOTTOM, "NormalizationTask"),
         Iri(BOTTOM, "NormalizationMethod")>>,
       <<Iri(BOTTOM, "hasTrendMethod"), Iri(BOTTOM, "TrendCalculationTask"),
         Iri(BOTTOM, "TrendCalculationMethod")>>,
       <<Iri(BOTTOM, "hasDetrendMethod"), Iri(BOTTOM, "TrendCalculationTask"),
         Iri(BOTTOM, "NormalizationMethod")>> >>

\* the task classes, in the order get_subclasses_of answers them
TaskClasses ==
    <<Iri(VISU, "CanvasTask"), Iri(BOTTOM, "NormalizationTask"),
      Iri(BOTTOM, "TrendCalculationTask")>>

\* rows <<class, superclass>> beside the top-level ones
SubClassRows ==
    << <<Iri(BOTTOM, "TrendCalculationMethod"), Iri(BOTTOM, "WindowedMethod")>> >>

\* rows <<data property, method class, range>>
PropertyRows ==
    << <<Iri(VISU, "hasLayout"), Iri(VISU, "CanvasMethod"), XsdString>>,
       <<Iri(BOTTOM, "hasWindowSize"), Iri(BOTTOM, "WindowedMethod"), XsdInt>> >>

RelationRows(rows, top) ==
    UNION {{ <<r[1], SUBPROP, top>>, <<r[1], DOMAIN_, r[2]>>, <<r[1], RANGE_, r[3]>> } :
           r \in Range(rows)}

\* the schema documents as they are published
PublishedSchemaKG ==
    {<<r[2], SUBCLASS, AtomicTaskIri>> : r \in Range(MethodRows)}
    \cup {<<r[3], SUBCLASS, AtomicMethodIri>> : r \in Range(MethodRows)}
    \cup {<<r[3], SUBCLASS, DataEntityIri>> : r \in Range(InputRows) \cup Range(OutputRows)}
    \cup {<<r[1], SUBCLASS, r[2]>> : r \in Range(SubClassRows)}
    \cup RelationRows(InputRows, HasInput)
    \cup RelationRows(OutputRows, HasOutput)
    \cup RelationRows(MethodRows, HasMethod)
    \cup UNION {{ <<r[1], DOMAIN_, r[2]>>, <<r[1], RANGE_, r[3]>> } :
                r \in Range(PropertyRows)}

\* a row a schema document can hold beside the published ones: the Statistics schema
\* declares a method class of the Visualization schema compatible with one of its tasks
CrossMethodRows ==
    << <<Iri(BOTTOM, "hasPlotMethod"), Iri(BOTTOM, "NormalizationTask"),
         Iri(VISU, "CanvasMethod")>> >>

\* the schema documents with that row
ExtendedSchemaKG == PublishedSchemaKG \cup RelationRows(CrossMethodRows, HasMethod)

\* self.input_kg of a constructing engine: the schema graphs it combined when created
SchemaKG == schema_kg

\* KG_SCHEMAS, in the order of the dict
KG_SCHEMAS ==
    << [name |-> "Data Science", namespace |-> TOP, namespace_prefix |-> "ds"],
       [name |-> "Visualization", namespace |-> VISU, namespace_prefix |-> "visu"],
       [name |-> "Statistics", namespace |-> "stats", namespace_prefix |-> "stats"],
       [name |-> "Machine Learning", namespace |-> "ml", namespace_prefix |-> "ml"] >>

\* KGSchema.from_schema_info(schema_info).kg: the document of one schema
SchemaGraph(namespace) == {t \in SchemaKG : t[1][2] = namespace}

\* bind_used_namespaces: the bindings of the graph of an engine constructing with the
\* Statistics schema
UsedNamespaces ==
    {<<i.namespace_prefix, i.namespace>> :
        i \in {j \in Range(KG_SCHEMAS) : j.namespace \in {TOP, BOTTOM, VISU}}}

-----------------------------------------------------------------------------
(* Compatibility resolver (utils.query_utils), as queries over a graph *)

RECURSIVE SuperClasses(_, _, _)
\* the classes c reaches by rdfs:subClassOf*, c included (fuel bounds the walk)
SuperClasses(kg, c, fuel) ==
    IF fuel = 0 THEN {c}
    ELSE {c} \cup UNION {SuperClasses(kg, t[3], fuel - 1) :
                         t \in {u \in kg : u[1] = c /\ u[2] = SUBCLASS}}

IsSubClassOf(kg, c, upper) == upper \in SuperClasses(kg, c, 3)

\* get_subclasses_of(class_iri, kg)
get_subclasses_of(class_iri, kg) ==
    {t[1] : t \in {u \in kg : u[2] = SUBCLASS /\ u[3] = class_iri}}

\* the <<relation, class>> pairs of rows whose relation has the class as domain in kg
PairsOf(kg, rows, top, class_iri) ==
    LET hit(r) == /\ <<r[1], DOMAIN_, class_iri>> \in kg
                  /\ <<r[1], RANGE_, r[3]>> \in kg
                  /\ <<r[1], SUBPROP, top>> \in kg
        sel == SelectSeq(rows, hit)
    IN  [i \in DOMAIN sel |-> <<sel[i][1], sel[i][3]>>]

get_input_properties_and_inputs(kg, task_class) == PairsOf(kg, InputRows, HasInput, task_class)
get_output_properties_and_outputs(kg, task_class) == PairsOf(kg, OutputRows, HasOutput, task_class)
get_method_properties_and_methods(kg, task_class) == PairsOf(kg, MethodRows \o CrossMethodRows, HasMethod, task_class)

\* get_data_properties_plus_inherited_by_class_iri(kg, class_iri): <<property, range>> pairs
get_data_properties_plus_inherited_by_class_iri(kg, class_iri) ==
    LET hit(r) == /\ <<r[1], RANGE_, r[3]>> \in kg
                  /\ \E c \in SuperClasses(kg, class_iri, 3) : <<r[1], DOMAIN_, c>> \in kg
        sel == SelectSeq(PropertyRows, hit)
    IN  [i \in DOMAIN sel |-> <<sel[i][1], sel[i][3]>>]

\* query_entity_parent_iri(kg, iri, upper): the declared types of iri under upper
query_entity_parent_iri(kg, iri, upper) ==
    {t[3] : t \in {u \in kg : u[1] = iri /\ u[2] = RDF_TYPE /\ IsSubClassOf(kg, u[3], upper)}}

\* query_data_entity_reference_iri(kg, iri)
query_data_entity_reference_iri(kg, iri) ==
    {t[3] : t \in {u \in kg : u[1] = iri /\ u[2] = HasReference}}

\* query_method_iri_by_task_iri: the nodes attached to the task by a method relation
query_method_iri_by_task_iri(kg, task_iri) ==
    {t[3] : t \in {u \in kg : u[1] = task_iri /\ <<u[2], SUBPROP, HasMethod>> \in kg}}

\* get_pipeline_and_first_task_iri(kg): <<pipeline, input data path, first task>> answers
get_pipeline_and_first_task_iri(kg) ==
    UNION {{<<t[1], d[3][2], s[3]>> :
               <<d, s>> \in {u \in kg : u[1] = t[1] /\ u[2] = HasInputDataPath}
                           \X {u \in kg : u[1] = t[1] /\ u[2] = HasStartTask}} :
           t \in {u \in kg : u[2] = RDF_TYPE /\ u[3] = PipelineIri}}

-----------------------------------------------------------------------------
(* Entity model (classes.entity, classes.task, classes.data_entity) *)

\* Entity(iri, parent_entity): .name and .type are the fragments of the two IRIs
Entity(iri, parent) == [iri |-> iri, parent |-> parent]
Name(e) == Fragment(e.iri)
Type(e) == IF e.parent = NoIri THEN "" ELSE Fragment(e.parent)

NoTask == Entity(NoIri, NoIri)

\* DataEntity(iri, parent_entity, has_source, has_data_semantics, has_data_structure, has_reference)
DataEntity(iri, parent, source, semantics, structure, reference) ==
    [iri |-> iri, parent |-> parent, has_source |-> source, has_data_semantics |-> semantics,
     has_data_structure |-> structure, has_reference |-> reference]

\* ExeKG.create_data_entity(name, source_value, data_semantics_name, data_structure_name)
create_data_entity(name, source_value, data_semantics_name, data_structure_name) ==
    DataEntity(Iri(BOTTOM, name), DataEntityIri, source_value,
               Iri(TOP, data_semantics_name), Iri(TOP, data_structure_name), NoIri)

-----------------------------------------------------------------------------
(* utils.kg_creation_utils *)

\* name_instance: the name issued for a type under a counter dict, and the dict afterwards
InstanceName(type_dict, type_name) == type_name \o ToString(type_dict[type_name])
Advance(type_dict, type_name) == [type_dict EXCEPT ![type_name] = @ + 1]

\* add_instance_from_parent_with_relation: the instance's type and its link from related
InstanceTriples(namespace, parent_iri, relation_iri, related_iri, instance_name) ==
    { <<Iri(namespace, instance_name), RDF_TYPE, parent_iri>>,
      <<related_iri, relation_iri, Iri(namespace, instance_name)>> }

\* add_data_entity_instance: the node, and one triple per field that is set
DataEntityTriples(e) ==
    { <<e.iri, RDF_TYPE, e.parent>> }
    \cup (IF e.has_source = "" THEN {} ELSE {<<e.iri, HasSource, Lit(e.has_source, XsdString)>>})
    \cup (IF e.has_data_structure = NoIri THEN {}
          ELSE {<<e.iri, HasDataStructure, e.has_data_structure>>})
    \cup (IF e.has_data_semantics = NoIri THEN {}
          ELSE {<<e.iri, HasDataSemantics, e.has_data_semantics>>})
    \cup (IF e.has_reference = NoIri THEN {} ELSE {<<e.iri, HasReference, e.has_reference>>})

\* add_and_attach_data_entity
AttachedDataEntityTriples(e, relation_iri, task_iri) ==
    DataEntityTriples(e) \cup {<<task_iri, relation_iri, e.iri>>}

\* create_pipeline_task (utils): the Pipeline node and its input data path
PipelineTriples(pipeline_iri, input_data_path) ==
    { <<pipeline_iri, RDF_TYPE, PipelineIri>>,
      <<pipeline_iri, HasInputDataPath, Lit(input_data_path, XsdString)>> }

-----------------------------------------------------------------------------
(* Construction engine (ExeKG, construction mode) *)

MinOf(S) == CHOOSE m \in S : \A n \in S : m <= n

\* mutant: the counters are seeded with 0
InitialTypeDict_FromZero(top_class) ==
    [n \in {Fragment(c) : c \in get_subclasses_of(top_class, SchemaKG)} |-> 0]

\* parse_kgs: a counter of 1 for the name of every subclass of the top-level class
InitialTypeDict(top_class) == [n \in {Fragment(c) : c \in get_subclasses_of(top_class, SchemaKG)} |-> 1]

\* mutant: every task is linked by the start-relation
NextRelation_AlwaysStart(prev_task) == HasStartTask

\* mutant: every task is linked by the next-relation
NextRelation_AlwaysNext(prev_task) == HasNextTask

\* add_task / create_next_task_cli: the relation that links a new task to the previous one
NextRelation(prev_task) == IF Type(prev_task) # "Pipeline" THEN HasNextTask ELSE HasStartTask

\* add_inputs_to_task / add_outputs_to_task: the index of the task being populated
TaskTypeIndex(type_dict, task_entity) == type_dict[Type(task_entity)] - 1

\* add_inputs_to_task: IRI of the j-th copy bound to a slot
InputCopyIri(input_entity_iri, task_type_index, same_input_index) ==
    Iri(input_entity_iri[2],
        Fragment(input_entity_iri) \o ToString(task_type_index) \o "_" \o ToString(same_input_index))

\* add_inputs_to_task: the copy, with its reference to the given data entity
BoundCopy(input_entity_iri, task_type_index, same_input_index, input_data_entity) ==
    DataEntity(InputCopyIri(input_entity_iri, task_type_index, same_input_index),
               input_entity_iri, "", NoIri, NoIri, input_data_entity.iri)

\* add_inputs_to_task, the loops: the slots in done are bound, list by list
BindInputs(kg, results, task_type_index, task_iri, input_data_entity_dict, done) ==
    [kg |-> kg \cup UNION { UNION {
                DataEntityTriples(input_data_entity_dict[Fragment(results[i][2])][j])
                \cup AttachedDataEntityTriples(
                        BoundCopy(results[i][2], task_type_index, j,
                                  input_data_entity_dict[Fragment(results[i][2])][j]),
                        HasInput, task_iri) :
                j \in DOMAIN input_data_entity_dict[Fragment(results[i][2])]} : i \in done},
     input_dict |->
        [n \in {Fragment(results[i][2]) :
                    i \in {k \in done : input_data_entity_dict[Fragment(results[k][2])] # <<>>}} |->
            BoundCopy(results[CHOOSE k \in done : Fragment(results[k][2]) = n][2],
                      task_type_index, Len(input_data_entity_dict[n]),
                      input_data_entity_dict[n][Len(input_data_entity_dict[n])])]]

\* add_inputs_to_task, the slots reached before a declared slot without a key ends the
\* call (KeyError)
SlotsBound(results, missing) ==
    IF missing = {} THEN DOMAIN results ELSE 1 .. (MinOf(missing) - 1)

InputsResult(bound, missing) ==
    [ok |-> missing = {}, kg |-> bound.kg, input_dict |-> bound.input_dict]

InputsUpTo(kg, results, task_type_index, task_iri, input_data_entity_dict, missing) ==
    InputsResult(BindInputs(kg, results, task_type_index, task_iri, input_data_entity_dict,
                            SlotsBound(results, missing)),
                 missing)

\* mutant: a declared slot without a key is skipped
InputsOver_SkipMissing(kg, results, task_type_index, task_iri, input_data_entity_dict) ==
    InputsResult(BindInputs(kg, results, task_type_index, task_iri, input_data_entity_dict,
                            {i \in DOMAIN results :
                                Fragment(results[i][2]) \in DOMAIN input_data_entity_dict}),
                 {})

\* add_inputs_to_task: the declared slots are looked up in the dict in their order
InputsOver(kg, results, task_type_index, task_iri, input_data_entity_dict) ==
    InputsUpTo(kg, results, task_type_index, task_iri, input_data_entity_dict,
               {i \in DOMAIN results : Fragment(results[i][2]) \notin DOMAIN input_data_entity_dict})

\* add_inputs_to_task: [ok, kg, input_dict]; ok is FALSE when a declared slot has no key
\* in input_data_entity_dict, after the slots before it were bound
add_inputs_to_task(kg, type_dict, task_entity, input_data_entity_dict) ==
    InputsOver(kg, get_input_properties_and_inputs(SchemaKG, task_entity.parent),
               TaskTypeIndex(type_dict, task_entity), task_entity.iri, input_data_entity_dict)

\* add_outputs_to_task: IRI of the entity created for an output slot
OutputIri(output_entity_iri, task_type_index) ==
    Iri(output_entity_iri[2], Fragment(output_entity_iri) \o ToString(task_type_index))

\* add_outputs_to_task, the loop
AttachOutputs(kg, results, task_type_index, task_iri) ==
    [kg |-> kg \cup UNION {
                AttachedDataEntityTriples(
                    DataEntity(OutputIri(results[i][2], task_type_index), DataEntityIri,
                               "", NoIri, NoIri, NoIri),
                    HasOutput, task_iri) : i \in DOMAIN results},
     output_dict |->
        [n \in {Fragment(results[i][2]) : i \in DOMAIN results} |->
            DataEntity(OutputIri(results[CHOOSE k \in DOMAIN results :
                                            Fragment(results[k][2]) = n][2],
                                 task_type_index),
                       DataEntityIri, "", NoIri, NoIri, NoIri)]]

\* add_outputs_to_task: [kg, output_dict]
add_outputs_to_task(kg, type_dict, task_entity) ==
    AttachOutputs(kg, get_output_properties_and_outputs(SchemaKG, task_entity.parent),
                  TaskTypeIndex(type_dict, task_entity), task_entity.iri)

\* mutant: the first compatible pair is chosen, whatever method_type is
ChosenPropertyMethod_First(results, method_type) ==
    IF results = <<>> THEN <<>> ELSE results[1]

\* add_task: the first compatible <<relation, method class>> pair whose fragment is
\* method_type, or <<>> (None)
ChosenPropertyMethod(results, method_type) ==
    LET hits == {i \in DOMAIN results : Fragment(results[i][2]) = method_type}
    IN  IF hits = {} THEN <<>> ELSE results[MinOf(hits)]

\* add_task: the property literals, up to the first property without a supplied value
LiteralsUpTo(task_iri, property_list, data_properties, missing) ==
    [ok |-> missing = {},
     triples |-> {<<task_iri, property_list[i][1],
                    Lit(data_properties[Fragment(property_list[i][1])], property_list[i][2])>> :
                  i \in SlotsBound(property_list, missing)}]

\* mutant: one string literal per supplied value, declared or not
PropertyLiterals_Supplied(task_iri, property_list, data_properties) ==
    [ok |-> TRUE,
     triples |-> {<<task_iri, Iri(BOTTOM, n), Lit(data_properties[n], XsdString)>> :
                     n \in DOMAIN data_properties}]

\* add_task: the literals of the declared properties, or the KeyError of the first one
\* without a supplied value
PropertyLiterals(task_iri, property_list, data_properties) ==
    LiteralsUpTo(task_iri, property_list, data_properties,
                 {i \in DOMAIN property_list :
                     Fragment(property_list[i][1]) \notin DOMAIN data_properties})

\* add_task: the namespace of the task's and the method's class
NamespaceToUse(visualization) == IF visualization THEN VISU ELSE BOTTOM

\* add_task runs on a record r of the engine and the call's results so far:
\* [status, kg, task_type_dict, method_type_dict, task, input_dict, output_dict, names];
\* a step leaves r alone once status is a fatal error
Running(r) == r.status = "running"

\* mutant: the name of the task is allocated before the previous task is looked at
TaskStep_AllocFirst(r, last, task_type, visualization) ==
    IF last = NoTask
    THEN [r EXCEPT !.status = "NoPipeline",
                   !.task_type_dict = Advance(@, task_type),
                   !.names = Append(@, <<"task", task_type,
                                         InstanceName(r.task_type_dict, task_type)>>)]
    ELSE [r EXCEPT
            !.kg = @ \cup InstanceTriples(BOTTOM, Iri(NamespaceToUse(visualization), task_type),
                                          NextRelation(last), last.iri,
                                          InstanceName(r.task_type_dict, task_type)),
            !.task = Entity(Iri(BOTTOM, InstanceName(r.task_type_dict, task_type)),
                            Iri(NamespaceToUse(visualization), task_type)),
            !.task_type_dict = Advance(@, task_type),
            !.names = Append(@, <<"task", task_type, InstanceName(r.task_type_dict, task_type)>>)]

\* add_task: the previous task is looked at, then the task is instantiated and linked
\* with it; without a previous task the call ends there
TaskStep(r, last, task_type, visualization) ==
    IF last = NoTask THEN [r EXCEPT !.status = "NoPipeline"]
    ELSE [r EXCEPT
            !.kg = @ \cup InstanceTriples(BOTTOM, Iri(NamespaceToUse(visualization), task_type),
                                          NextRelation(last), last.iri,
                                          InstanceName(r.task_type_dict, task_type)),
            !.task = Entity(Iri(BOTTOM, InstanceName(r.task_type_dict, task_type)),
                            Iri(NamespaceToUse(visualization), task_type)),
            !.task_type_dict = Advance(@, task_type),
            !.names = Append(@, <<"task", task_type, InstanceName(r.task_type_dict, task_type)>>)]

InputsInto(r, ins) ==
    [r EXCEPT !.kg = ins.kg, !.input_dict = ins.input_dict,
              !.status = IF ins.ok THEN @ ELSE "MissingInput"]

\* add_task: add the given input data entities to the task
InputStep(r, input_data_entity_dict) ==
    IF ~Running(r) THEN r
    ELSE InputsInto(r, add_inputs_to_task(r.kg, r.task_type_dict, r.task, input_data_entity_dict))

OutputsInto(r, outs) == [r EXCEPT !.kg = outs.kg, !.output_dict = outs.output_dict]

\* add_task: add the output data entities the schema declares
OutputStep(r) ==
    IF ~Running(r) THEN r
    ELSE OutputsInto(r, add_outputs_to_task(r.kg, r.task_type_dict, r.task))

MethodInto(r, method_parent, chosen_property_method, method_type) ==
    IF chosen_property_method = <<>> THEN [r EXCEPT !.status = "IncompatibleMethod"]
    ELSE [r EXCEPT
            !.kg = @ \cup InstanceTriples(BOTTOM, method_parent, chosen_property_method[1],
                                          r.task.iri,
                                          InstanceName(r.method_type_dict, method_type)),
            !.method_type_dict = Advance(@, method_type),
            !.names = Append(@, <<"method", method_type,
                                  InstanceName(r.method_type_dict, method_type)>>)]

\* add_task: match method_type with the compatible methods, instantiate the method and
\* link it with the task by the matched relation
MethodStep(r, method_type, visualization) ==
    IF ~Running(r) THEN r
    ELSE MethodInto(r, Iri(NamespaceToUse(visualization), method_type),
                    ChosenPropertyMethod(
                        get_method_properties_and_methods(SchemaKG, r.task.parent), method_type),
                    method_type)

LiteralsInto(r, lits) ==
    [r EXCEPT !.kg = @ \cup lits.triples,
              !.status = IF lits.ok THEN @ ELSE "MissingProperty"]

\* add_task: add the data properties of the method's class to the task
PropertyStep(r, method_type, data_properties, visualization) ==
    IF ~Running(r) THEN r
    ELSE LiteralsInto(r, PropertyLiterals(
                            r.task.iri,
                            get_data_properties_plus_inherited_by_class_iri(
                                SchemaKG, Iri(NamespaceToUse(visualization), method_type)),
                            data_properties))

\* add_task: the call returns the task
ReturnStep(r) == IF Running(r) THEN [r EXCEPT !.status = "ok"] ELSE r

\* ExeKG.add_task: the engine after the call, whether it returned (status "ok") or
\* ended in a fatal error
add_task(kg, ttd, mtd, last, task_type, input_data_entity_dict, method_type, data_properties, visualization) ==
    ReturnStep(
      PropertyStep(
        MethodStep(
          OutputStep(
            InputStep(
              TaskStep([status |-> "running", kg |-> kg, task_type_dict |-> ttd,
                        method_type_dict |-> mtd, task |-> NoTask, input_dict |-> <<>>,
                        output_dict |-> <<>>, names |-> <<>>],
                       last, task_type, visualization),
              input_data_entity_dict)),
          method_type, visualization),
        method_type, data_properties, visualization))

-----
(* Inputs of the construction calls *)

PipelineNames == {"MyPipeline"}
InputDataPaths == {"data.csv"}

\* the entities the caller described with create_data_entity before building
DescribedEntities == {create_data_entity("feature_1", "feature_1", "TimeSeries", "Vector")}

\* the lists a caller binds to a slot: none, one of the entities it holds, or a
\* described entity and one it holds
BindingLists(pool) ==
    {<<>>} \cup {<<e>> : e \in pool} \cup {<<d, e>> : <<d, e>> \in DescribedEntities \X pool}

\* the lists a caller binds to a further slot of a task: none, or a described entity
ShortBindingLists == {<<>>} \cup {<<d>> : d \in DescribedEntities}

SlotNames(task_type) == {Fragment(r[3]) : r \in {q \in Range(InputRows) : Fragment(q[2]) = task_type}}

\* the name of the slot a task type declares first
FirstSlotName(task_type) ==
    Fragment(InputRows[MinOf({i \in DOMAIN InputRows : Fragment(InputRows[i][2]) = task_type})][3])

InputDicts(task_type, pool) ==
    UNION {{f \in [S -> BindingLists(pool)] :
               \A n \in S : n # FirstSlotName(task_type) => f[n] \in ShortBindingLists} :
           S \in SUBSET SlotNames(task_type)}

\* the dicts a caller of a chain under construction passes: every declared slot has a
\* key, the first one a list of at most one entity it holds, the others an empty list
ChainInputDicts(task_type, pool) ==
    {f \in [SlotNames(task_type) -> {<<>>} \cup {<<e>> : e \in pool}] :
        \A n \in SlotNames(task_type) : n # FirstSlotName(task_type) => f[n] = <<>>}

PropertyNames == {"hasLayout", "hasWindowSize"}

\* the property dicts a caller passes: no value, or a value for every name
PropertyDicts ==
    {[n \in {} |-> "5"], [n \in PropertyNames |-> IF n = "hasLayout" THEN "grid" ELSE "5"]}

FunctionRange(f) == {f[k] : k \in DOMAIN f}

\* history: the arguments kept of a call that is no add_task
NoArgs ==
    [task_type |-> "", method_type |-> "", visualization |-> FALSE,
     lengths |-> [n \in {} |-> 0], data_properties |-> [n \in {} |-> "5"]]

\* history: the keys of an input dict with the lengths of their lists
ListLengths(input_data_entity_dict) ==
    [n \in DOMAIN input_data_entity_dict |-> Len(input_data_entity_dict[n])]

NoFile == {<<NoIri, NoIri, NoIri>>}

-----------------------------------------------------------------------------
(* Construction actions *)

\* ExeKG.create_pipeline_task(pipeline_name, input_data_path)
CreatePipeline(pipeline_name, input_data_path) ==
    /\ ~halted
    /\ saved_kg = NoFile
    /\ last_created_task = NoTask     \* one pipeline per session
    /\ output_kg' = output_kg \cup PipelineTriples(Iri(BOTTOM, pipeline_name), input_data_path)
    /\ last_created_task' = Entity(Iri(BOTTOM, pipeline_name), PipelineIri)
    /\ last_call' = [op |-> "create_pipeline_task", status |-> "ok", before |-> output_kg,
                     head |-> last_created_task, args |-> NoArgs]
    /\ UNCHANGED <<task_type_dict, method_type_dict, halted, entities, issued, created,
                   saved_kg, saved_ns, cli, standalone>>
    /\ UNCHANGED execVars

\* ExeKG.add_task(task_type, input_data_entity_dict, method_type, data_properties, visualization)
AddTask(task_type, input_data_entity_dict, method_type, data_properties, visualization) ==
    /\ ~halted
    /\ saved_kg = NoFile
    /\ Len(created) < MaxTasks
    /\ LET r == add_task(output_kg, task_type_dict, method_type_dict, last_created_task,
                         task_type, input_data_entity_dict, method_type, data_properties,
                         visualization)
       IN  /\ output_kg' = r.kg
           /\ task_type_dict' = r.task_type_dict
           /\ method_type_dict' = r.method_type_dict
           /\ issued' = issued \o r.names
           /\ last_call' = [op |-> "add_task", status |-> r.status, before |-> output_kg,
                            head |-> last_created_task,
                            args |-> [task_type |-> task_type, method_type |-> method_type,
                                      visualization |-> visualization,
                                      lengths |-> ListLengths(input_data_entity_dict),
                                      data_properties |-> data_properties]]
           /\ IF r.status = "ok"
              THEN /\ last_created_task' = r.task
                   /\ halted' = FALSE
                   /\ entities' = entities \cup FunctionRange(r.input_dict)
                                           \cup FunctionRange(r.output_dict)
                   /\ created' = Append(created,
                                    [iri |-> r.task.iri, task_type |-> task_type,
                                     method_type |-> method_type,
                                     visualization |-> visualization,
                                     input_dict |-> r.input_dict])
              ELSE /\ halted' = TRUE
                   /\ UNCHANGED <<last_created_task, entities, created>>
    /\ UNCHANGED <<saved_kg, saved_ns, cli, standalone>>
    /\ UNCHANGED execVars

\* dict.update: the entries of new over those of old
Updated(old, new) ==
    [n \in DOMAIN old \cup DOMAIN new |-> IF n \in DOMAIN new THEN new[n] ELSE old[n]]

AddInputsInto(k, ins) ==
    /\ output_kg' = ins.kg
    /\ halted' = ~ins.ok
    /\ entities' = entities \cup FunctionRange(ins.input_dict)
    /\ created' = [created EXCEPT ![k].input_dict = Updated(@, ins.input_dict)]

\* ExeKG.add_inputs_to_task(task_entity, input_data_entity_dict), called by the caller
\* on the task object the k-th successful add_task returned
AddInputsToTask(k, input_data_entity_dict) ==
    /\ ~halted
    /\ saved_kg = NoFile
    /\ k \in DOMAIN created
    /\ standalone < MaxStandalone
    /\ standalone' = standalone + 1
    /\ AddInputsInto(k, add_inputs_to_task(
                            output_kg, task_type_dict,
                            Entity(created[k].iri,
                                   Iri(NamespaceToUse(created[k].visualization),
                                       created[k].task_type)),
                            input_data_entity_dict))
    /\ last_call' = [op |-> "add_inputs_to_task",
                     status |-> IF halted' THEN "MissingInput" ELSE "ok",
                     before |-> output_kg, head |-> last_created_task,
                     args |-> [task_type |-> created[k].task_type, method_type |-> "",
                               visualization |-> created[k].visualization,
                               lengths |-> ListLengths(input_data_entity_dict),
                               data_properties |-> [n \in {} |-> "5"]]]
    /\ UNCHANGED <<task_type_dict, method_type_dict, last_created_task, issued, cli, saved_kg, saved_ns>>
    /\ UNCHANGED execVars

\* ExeKG.add_outputs_to_task(task_entity), called by the caller on the task object the
\* k-th successful add_task returned
AddOutputsToTask(k) ==
    /\ ~halted
    /\ saved_kg = NoFile
    /\ k \in DOMAIN created
    /\ standalone < MaxStandalone
    /\ standalone' = standalone + 1
    /\ output_kg' = add_outputs_to_task(
                        output_kg, task_type_dict,
                        Entity(created[k].iri,
                               Iri(NamespaceToUse(created[k].visualization),
                                   created[k].task_type))).kg
    /\ entities' = entities \cup FunctionRange(add_outputs_to_task(
                        output_kg, task_type_dict,
                        Entity(created[k].iri,
                               Iri(NamespaceToUse(created[k].visualization),
                                   created[k].task_type))).output_dict)
    /\ last_call' = [op |-> "add_outputs_to_task", status |-> "ok", before |-> output_kg,
                     head |-> last_created_task,
                     args |-> [NoArgs EXCEPT !.task_type = created[k].task_type,
                                             !.visualization = created[k].visualization]]
    /\ UNCHANGED <<task_type_dict, method_type_dict, last_created_task, halted, issued,
                   created, cli, saved_kg, saved_ns>>
    /\ UNCHANGED execVars

\* mutant: the output graph is emptied once it is written
SaveCreatedKg_Clears ==
    /\ ~halted
    /\ saved_kg = NoFile
    /\ saved_kg' = output_kg
    /\ saved_ns' = UsedNamespaces
    /\ output_kg' = {}
    /\ last_call' = [op |-> "save_created_kg", status |-> "ok", before |-> output_kg,
                     head |-> last_created_task, args |-> NoArgs]
    /\ UNCHANGED <<task_type_dict, method_type_dict, last_created_task, halted,
                   entities, issued, created, cli, standalone>>
    /\ UNCHANGED execVars

\* ExeKG.save_created_kg(file_path)
SaveCreatedKg ==
    /\ ~halted
    /\ saved_kg = NoFile
    /\ saved_kg' = output_kg
    /\ saved_ns' = UsedNamespaces
    /\ last_call' = [op |-> "save_created_kg", status |-> "ok", before |-> output_kg,
                     head |-> last_created_task, args |-> NoArgs]
    /\ UNCHANGED <<output_kg, task_type_dict, method_type_dict, last_created_task, halted,
                   entities, issued, created, cli, standalone>>
    /\ UNCHANGED execVars

-----------------------------------------------------------------------------
(* A second engine instance *)

\* ExeKG.__init__: the fields of a new constructing engine
NewEngine ==
    [output_kg |-> {},
     task_type_dict |-> InitialTypeDict(AtomicTaskIri),
     method_type_dict |-> InitialTypeDict(AtomicMethodIri),
     last_created_task |-> NoTask,
     halted |-> FALSE,
     issued |-> <<>>,
     tasks |-> 0]

\* the second engine after an add_task call that ended as r
EngineAfter(engine, r) ==
    [output_kg |-> r.kg,
     task_type_dict |-> r.task_type_dict,
     method_type_dict |-> r.method_type_dict,
     last_created_task |-> IF r.status = "ok" THEN r.task ELSE engine.last_created_task,
     halted |-> r.status # "ok",
     issued |-> engine.issued \o r.names,
     tasks |-> IF r.status = "ok" THEN engine.tasks + 1 ELSE engine.tasks]

\* ExeKG.create_pipeline_task on the second engine
CreatePipelineOther(pipeline_name, input_data_path) ==
    /\ ~other.halted
    /\ other.last_created_task = NoTask
    /\ other' = [other EXCEPT
                    !.output_kg = @ \cup PipelineTriples(Iri(BOTTOM, pipeline_name),
                                                         input_data_path),
                    !.last_created_task = Entity(Iri(BOTTOM, pipeline_name), PipelineIri)]
    /\ UNCHANGED <<schema_kg, output_kg, task_type_dict, method_type_dict, last_created_task,
                   halted, entities, issued, created, last_call, standalone, cli, saved_kg,
                   saved_ns, bottom_level_schema, input_kg, pc, next_task_iri, canvas_method,
                   error, visited, task_output_dict, parsed, task_obj, todo>>

\* mutant: the dicts of the names are those of the first engine
AddTaskOther_SharedDicts(task_type, input_data_entity_dict, method_type, data_properties, visualization) ==
    /\ ~other.halted
    /\ other.tasks < MaxTasks
    /\ LET r == add_task(other.output_kg, task_type_dict, method_type_dict,
                         other.last_created_task, task_type, input_data_entity_dict,
                         method_type, data_properties, visualization)
       IN  /\ other' = EngineAfter(other, r)
           /\ task_type_dict' = r.task_type_dict
           /\ method_type_dict' = r.method_type_dict
    /\ UNCHANGED <<schema_kg, output_kg, last_created_task,
                   halted, entities, issued, created, last_call, standalone, cli, saved_kg,
                   saved_ns, bottom_level_schema, input_kg, pc, next_task_iri, canvas_method,
                   error, visited, task_output_dict, parsed, task_obj, todo>>

\* ExeKG.add_task on the second engine: the call reads and writes the fields of the
\* engine it is called on
AddTaskOther(task_type, input_data_entity_dict, method_type, data_properties, visualization) ==
    /\ ~other.halted
    /\ other.tasks < MaxTasks
    /\ other' = EngineAfter(other,
                    add_task(other.output_kg, other.task_type_dict, other.method_type_dict,
                             other.last_created_task, task_type, input_data_entity_dict,
                             method_type, data_properties, visualization))
    /\ UNCHANGED <<schema_kg, output_kg, task_type_dict, method_type_dict, last_created_task,
                   halted, entities, issued, created, last_call, standalone, cli, saved_kg,
                   saved_ns, bottom_level_schema, input_kg, pc, next_task_iri, canvas_method,
                   error, visited, task_output_dict, parsed, task_obj, todo>>

-----------------------------------------------------------------------------
(* Interactive construction (start_pipeline_creation) *)

\* parse_kgs: self.atomic_task_list, the task classes in the order of the query answer
atomic_task_list == [i \in DOMAIN TaskClasses |-> Entity(TaskClasses[i], AtomicTaskIri)]

\* the sources a user describes as new data entities in one prompt
NewSourceLists == {<<>>, <<"feature_1">>, <<"feature_2">>}

\* create_next_task_cli: the data entity built from a described source
DescribedEntity(source) ==
    DataEntity(Iri(BOTTOM, source), DataEntityIri, source, Iri(TOP, "TimeSeries"),
               Iri(TOP, "Vector"), NoIri)

\* create_next_task_cli: the triples that attach the chosen existing entities and the
\* newly described ones to the task as its inputs
CliInputTriples(task_iri, chosen_data_entity_list, new_entities) ==
    UNION {AttachedDataEntityTriples(e, HasInput, task_iri) :
           e \in chosen_data_entity_list \cup Range(new_entities)}

\* create_next_task_cli: existing_data_entity_list after the call
ExistingAfter(existing_data_entity_list, new_entities) ==
    existing_data_entity_list \o new_entities

\* start_pipeline_creation, up to the loop
StartPipelineCreation(pipeline_name, input_data_path) ==
    /\ ~halted
    /\ cli.pc = "off"
    /\ output_kg = {}
    /\ output_kg' = output_kg \cup PipelineTriples(Iri(BOTTOM, pipeline_name), input_data_path)
    /\ cli' = [cli EXCEPT !.pc = "task",
                          !.prev_task = Entity(Iri(BOTTOM, pipeline_name), PipelineIri)]
    /\ last_call' = [op |-> "start_pipeline_creation", status |-> "ok", before |-> output_kg,
                     head |-> last_created_task, args |-> NoArgs]
    /\ UNCHANGED <<task_type_dict, method_type_dict, last_created_task, halted, entities,
                   issued, created, saved_kg, saved_ns, standalone>>
    /\ UNCHANGED execVars

CliTaskInto(next_task_parent, task_entity, chosen_data_entity_list, new_entities, outs) ==
    /\ output_kg' = outs.kg
    /\ task_type_dict' = Advance(task_type_dict, Name(next_task_parent))
    /\ issued' = Append(issued, <<"task", Name(next_task_parent), Name(task_entity)>>)
    /\ cli' = [cli EXCEPT !.pc = "method", !.task = task_entity,
                          !.existing = ExistingAfter(@, new_entities),
                          !.tasks = Append(@, task_entity.iri)]

CliTaskNamed(next_task_parent, task_entity, chosen_data_entity_list, new_entities) ==
    CliTaskInto(next_task_parent, task_entity, chosen_data_entity_list, new_entities,
        add_outputs_to_task(
            output_kg
            \cup InstanceTriples(BOTTOM, next_task_parent.iri, NextRelation(cli.prev_task),
                                 cli.prev_task.iri, Name(task_entity))
            \cup CliInputTriples(task_entity.iri, chosen_data_entity_list, new_entities),
            Advance(task_type_dict, Name(next_task_parent)), task_entity))

\* create_next_task_cli(prev_task, existing_data_entity_list): -1 ends the pipeline,
\* another choice creates the task, its inputs and its outputs
CreateNextTaskCli(next_task_id, chosen_data_entity_list, sources) ==
    /\ ~halted
    /\ cli.pc = "task"
    /\ chosen_data_entity_list \subseteq Range(cli.existing)
    /\ IF next_task_id = -1
       THEN /\ cli' = [cli EXCEPT !.pc = "ended"]
            /\ UNCHANGED <<output_kg, task_type_dict, issued>>
       ELSE /\ Len(cli.tasks) < MaxTasks
            /\ CliTaskNamed(
                  atomic_task_list[next_task_id + 1],
                  Entity(Iri(BOTTOM, InstanceName(task_type_dict,
                                                  Name(atomic_task_list[next_task_id + 1]))),
                         atomic_task_list[next_task_id + 1].iri),
                  chosen_data_entity_list,
                  [i \in DOMAIN sources |-> DescribedEntity(sources[i])])
    /\ last_call' = [op |-> "create_next_task_cli", status |-> "ok", before |-> output_kg,
                     head |-> last_created_task, args |-> NoArgs]
    /\ UNCHANGED <<method_type_dict, last_created_task, halted, entities, created, saved_kg, saved_ns,
                   standalone>>
    /\ UNCHANGED execVars

\* create_method: the literals of the property values the user enters
CliPropertyLiterals(task_iri, property_list, value) ==
    {<<task_iri, property_list[i][1], Lit(value, property_list[i][2])>> :
        i \in DOMAIN property_list}

\* create_method(task_to_attach_to): the chosen compatible method and its properties
CreateMethodCli(method_id, value) ==
    /\ ~halted
    /\ cli.pc = "method"
    /\ method_id + 1 \in DOMAIN get_method_properties_and_methods(SchemaKG, cli.task.parent)
    /\ output_kg' = output_kg
         \cup InstanceTriples(
                BOTTOM,
                get_method_properties_and_methods(SchemaKG, cli.task.parent)[method_id + 1][2],
                get_method_properties_and_methods(SchemaKG, cli.task.parent)[method_id + 1][1],
                cli.task.iri,
                InstanceName(method_type_dict, Fragment(
                    get_method_properties_and_methods(SchemaKG, cli.task.parent)[method_id + 1][2])))
         \cup CliPropertyLiterals(
                cli.task.iri,
                get_data_properties_plus_inherited_by_class_iri(
                    SchemaKG,
                    get_method_properties_and_methods(SchemaKG, cli.task.parent)[method_id + 1][2]),
                value)
    /\ method_type_dict' = Advance(method_type_dict, Fragment(
            get_method_properties_and_methods(SchemaKG, cli.task.parent)[method_id + 1][2]))
    /\ issued' = Append(issued, <<"method",
            Fragment(get_method_properties_and_methods(SchemaKG, cli.task.parent)[method_id + 1][2]),
            InstanceName(method_type_dict, Fragment(
                get_method_properties_and_methods(SchemaKG, cli.task.parent)[method_id + 1][2]))>>)
    /\ cli' = [cli EXCEPT !.pc = "task", !.prev_task = cli.task]
    /\ last_call' = [op |-> "create_method", status |-> "ok", before |-> output_kg,
                     head |-> last_created_task, args |-> NoArgs]
    /\ UNCHANGED <<task_type_dict, last_created_task, halted, entities, created, saved_kg, saved_ns,
                   standalone>>
    /\ UNCHANGED execVars

-----------------------------------------------------------------------------
(* Execution engine (ExeKG, execution mode) *)

\* the Python classes of tasks.visual_tasks, tasks.statistic_tasks, tasks.ml_tasks
visual_tasks == {"CanvasTaskCanvasMethod"}
statistic_tasks == {"NormalizationTaskNormalizationMethod"}
ml_tasks ==
    {"NormalizationTaskNormalizationMethod", "CanvasTaskCanvasMethod",
     "TrendCalculationTaskTrendCalculationMethod"}

\* field values: None, a plain string, the str() of a graph term, or a nested object
NoneValue == <<"none", "">>
StrValue(str) == <<"str", str>>
TermValue(t) == <<"term", t>>
ObjValue(obj) == <<"obj", obj>>
Diverges == <<"diverges", "">>

\* the objects of the triples a node has under a predicate
ObjectsOf(kg, iri, predicate) == {t[3] : t \in {u \in kg : u[1] = iri /\ u[2] = predicate}}

RECURSIVE parse_data_entity_by_iri(_, _, _)
RECURSIVE property_value_to_field_value(_, _, _)

\* ExeKG.property_value_to_field_value: a value with "#" that parses as a data entity
\* becomes that object, every other value is kept as it is
property_value_to_field_value(kg, property_value, fuel) ==
    IF HasHash(property_value)
    THEN LET data_entity == parse_data_entity_by_iri(kg, property_value, fuel)
         IN  IF data_entity = NoneValue THEN TermValue(property_value) ELSE data_entity
    ELSE TermValue(property_value)

\* ExeKG.parse_data_entity_by_iri: None, or the object filled from the triples of the
\* referenced entity (of the entity itself without a reference); a field with several
\* triples keeps one of them
parse_data_entity_by_iri(kg, in_out_data_entity_iri, fuel) ==
    LET parents == query_entity_parent_iri(kg, in_out_data_entity_iri, DataEntityIri)
        refs == query_data_entity_reference_iri(kg, in_out_data_entity_iri)
        data_entity_ref_iri == IF refs = {} THEN in_out_data_entity_iri
                               ELSE CHOOSE r \in refs : TRUE
        field(predicate, initial) ==
            LET os == ObjectsOf(kg, data_entity_ref_iri, predicate)
            IN  IF os = {} THEN initial
                ELSE property_value_to_field_value(kg, CHOOSE o \in os : TRUE, fuel - 1)
    IN  IF parents = {} THEN NoneValue
        ELSE IF fuel = 0 THEN Diverges
        ELSE ObjValue(
               [iri |-> in_out_data_entity_iri,
                parent |-> CHOOSE t \in parents : TRUE,
                has_reference |-> field(HasReference, StrValue(Fragment(data_entity_ref_iri))),
                has_source |-> field(HasSource, NoneValue),
                has_data_semantics |-> field(HasDataSemantics, NoneValue),
                has_data_structure |-> field(HasDataStructure, NoneValue)])

\* get_method_by_task_iri (utils.query_utils): the method entities attached to a task
get_method_by_task_iri(kg, task_iri) ==
    UNION {{Entity(m, p) : p \in query_entity_parent_iri(kg, m, AtomicMethodIri)} :
           m \in query_method_iri_by_task_iri(kg, task_iri)}

\* mutant: the registries are searched from the last to the first
ResolveClass_MlFirst(class_name) ==
    IF class_name \in ml_tasks THEN "ml_tasks"
    ELSE IF class_name \in statistic_tasks THEN "statistic_tasks"
    ELSE IF class_name \in visual_tasks THEN "visual_tasks"
    ELSE ""

\* parse_task_by_iri: the registry whose class the name resolves to, "" when none has it
ResolveClass(class_name) ==
    IF class_name \in visual_tasks THEN "visual_tasks"
    ELSE IF class_name \in statistic_tasks THEN "statistic_tasks"
    ELSE IF class_name \in ml_tasks THEN "ml_tasks"
    ELSE ""

\* mutant: the method's type comes first in the class name
ClassName_MethodFirst(task_type, method_type) == method_type \o task_type

\* parse_task_by_iri: the name of the Python class of a task
ClassName(task_type, method_type) == task_type \o method_type

\* parse_task_by_iri: the canvas argument the constructor receives
CanvasArgument(canvas) == IF canvas # 0 THEN canvas ELSE 0

\* mutant: a task without a class of the schema is taken for a normalization task
TaskParentIris_Assumed(kg, task_iri) ==
    IF query_entity_parent_iri(kg, task_iri, AtomicTaskIri) = {}
    THEN {Iri(BOTTOM, "NormalizationTask")}
    ELSE query_entity_parent_iri(kg, task_iri, AtomicTaskIri)

\* parse_task_by_iri: the answers to the query for the type of the task
TaskParentIris(kg, task_iri) == query_entity_parent_iri(kg, task_iri, AtomicTaskIri)

\* parse_task_by_iri: the task IRI the output of a fatal error shows; the TypeError of
\* calling Class = None shows none
NamedInError(status, task_iri) ==
    IF status \in {"MalformedGraph", "NoMethod"} THEN task_iri ELSE NoIri

\* ExeKG.parse_task_by_iri(task_iri, canvas_method): [status, task]
parse_task_by_iri(kg, task_iri, canvas) ==
    LET parents == TaskParentIris(kg, task_iri)
        task_parent_iri == CHOOSE t \in parents : TRUE
        methods == get_method_by_task_iri(kg, task_iri)
        method == CHOOSE m \in methods : TRUE
        class_name == ClassName(Fragment(task_parent_iri), Type(method))
        registry == ResolveClass(class_name)
        values(predicate) ==
            {property_value_to_field_value(kg, o, MaxNesting) : o \in ObjectsOf(kg, task_iri, predicate)}
        fail(kind) == [status |-> kind, task |-> NoTask]
    IN  IF parents = {} THEN fail("MalformedGraph")
        ELSE IF methods = {} THEN fail("NoMethod")
        ELSE IF registry = "" THEN fail("Unresolvable")
        ELSE [status |-> "ok",
              task |-> [iri |-> task_iri, parent |-> task_parent_iri,
                        method_type |-> Type(method), class_name |-> class_name,
                        registry |-> registry, canvas |-> CanvasArgument(canvas),
                        has_input |-> values(HasInput),
                        has_output |-> values(HasOutput),
                        next_links |-> ObjectsOf(kg, task_iri, HasNextTask)]]

\* mutant: the next-link is never read
NextTaskIris_None(task) == {}

\* execute_pipeline: the values next_task.has_next_task can hold (one per next-link; none
\* leaves it None)
NextTaskIris(task) == task.next_links

\* mutant: a canvas task is not kept as the canvas context
NextCanvas_Never(canvas, task, instance) == canvas

\* execute_pipeline: the canvas context after a task has run
NextCanvas(canvas, task, instance) == IF Type(task) = "CanvasTask" THEN instance ELSE canvas

\* __init__: the schemas searched for the bottom-level one, in the order of KG_SCHEMAS
DomainSchemas ==
    SelectSeq(KG_SCHEMAS, LAMBDA i : i.name # "Data Science" /\ i.name # "Visualization")

\* __init__: the domain schemas whose <<prefix, namespace>> is among the bindings
BoundDomainSchemas(all_ns) ==
    SelectSeq(DomainSchemas, LAMBDA i : <<i.namespace_prefix, i.namespace>> \in all_ns)

\* __init__, execution mode: the name of the bottom-level schema found among the
\* bindings of the parsed file, "" when there is none
DetectedSchema(all_ns) ==
    IF BoundDomainSchemas(all_ns) # <<>> THEN BoundDomainSchemas(all_ns)[1].name
    ELSE IF <<KG_SCHEMAS[2].namespace_prefix, KG_SCHEMAS[2].namespace>> \in all_ns
    THEN KG_SCHEMAS[2].name
    ELSE ""

\* the namespace of the schema of a name
NamespaceOf(schema_name) ==
    (CHOOSE i \in Range(KG_SCHEMAS) : i.name = schema_name).namespace

\* ExeKG.__init__(input_exe_kg_path): the bottom-level schema is found among the
\* bindings of the file, and the file is combined with the three schema graphs; without
\* a bottom-level schema the process exits
LoadKG ==
    /\ saved_kg # NoFile
    /\ pc = "idle"
    /\ bottom_level_schema' = DetectedSchema(saved_ns)
    /\ IF DetectedSchema(saved_ns) = ""
       THEN /\ pc' = "failed"
            /\ error' = <<"SchemaResolution", NoIri, NoIri>>
            /\ UNCHANGED input_kg
       ELSE /\ pc' = "loaded"
            /\ input_kg' = saved_kg \cup SchemaGraph(TOP)
                                    \cup SchemaGraph(NamespaceOf(DetectedSchema(saved_ns)))
                                    \cup SchemaGraph(VISU)
            /\ UNCHANGED error
    /\ UNCHANGED <<next_task_iri, canvas_method, visited, task_output_dict, parsed, task_obj,
                   todo, saved_kg, saved_ns>>
    /\ UNCHANGED consVars

\* execute_pipeline, up to the loop: the pipeline entry, no canvas, no output of a task
Locate ==
    /\ pc = "loaded"
    /\ LET entries == get_pipeline_and_first_task_iri(input_kg)
       IN  IF entries = {}
           THEN /\ pc' = "failed"
                /\ error' = <<"NoPipelineInfo", NoIri, NoIri>>
                /\ UNCHANGED next_task_iri
           ELSE /\ pc' = "running"
                /\ next_task_iri' = (CHOOSE e \in entries : TRUE)[3]
                /\ UNCHANGED error
    /\ canvas_method' = 0
    /\ task_output_dict' = <<>>
    /\ UNCHANGED <<bottom_level_schema, input_kg, visited, parsed, task_obj, todo, saved_kg,
                   saved_ns>>
    /\ UNCHANGED consVars

\* the names of the output entities of a task object
OutputNames(task) == {Fragment(v[2].iri) : v \in {w \in task.has_output : w[1] = "obj"}}

\* run_method (classes.tasks): a task returns nothing, or a value under the name of each
\* of its output entities (here the position of the task in the run)
RunOutputs(task, position) == {<<>>, [n \in OutputNames(task) |-> position]}

\* mutant: the map is replaced by what the task returned
OutputsMerged_Replace(dict, output) == output

\* execute_pipeline: task_output_dict after a task returned output
OutputsMerged(dict, output) == IF output # <<>> THEN Updated(dict, output) ELSE dict

\* history: a task object with the map its run_method was given and what it returned
Ran(task, seen, output) ==
    [f \in DOMAIN task \cup {"seen", "output"} |->
        IF f = "seen" THEN seen ELSE IF f = "output" THEN output ELSE task[f]]

\* execute_pipeline, one iteration of the loop: parse the task, run it, merge what it
\* returned, keep a canvas task as the canvas context, follow the next-link
RunTask ==
    /\ pc = "running"
    /\ LET r == parse_task_by_iri(input_kg, next_task_iri, canvas_method)
       IN  IF r.status # "ok"
           THEN /\ pc' = "failed"
                /\ error' = <<r.status, next_task_iri, NamedInError(r.status, next_task_iri)>>
                /\ UNCHANGED <<next_task_iri, canvas_method, visited, task_output_dict>>
           ELSE /\ \E output \in RunOutputs(r.task, Len(visited) + 1) :
                      /\ visited' = Append(visited, Ran(r.task, task_output_dict, output))
                      /\ task_output_dict' = OutputsMerged(task_output_dict, output)
                /\ canvas_method' = NextCanvas(canvas_method, r.task, Len(visited) + 1)
                /\ IF NextTaskIris(r.task) = {}
                   THEN pc' = "done" /\ next_task_iri' = NoIri
                   ELSE pc' = "running" /\ next_task_iri' \in NextTaskIris(r.task)
                /\ UNCHANGED error
    /\ UNCHANGED <<bottom_level_schema, input_kg, parsed, task_obj, todo, saved_kg, saved_ns>>
    /\ UNCHANGED consVars

-----------------------------------------------------------------------------
(* parse_task_by_iri, the loop over the triples of the task, one iteration at a time *)

\* property_name_to_field_name (utils.string_utils): the fragment of the property, from
\* camel case to snake case
SnakeCase ==
    [type |-> "type", hasInput |-> "has_input", hasOutput |-> "has_output",
     hasNextTask |-> "has_next_task", hasCanvasMethod |-> "has_canvas_method",
     hasNormalizationMethod |-> "has_normalization_method",
     hasTrendMethod |-> "has_trend_method", hasDetrendMethod |-> "has_detrend_method",
     hasLayout |-> "has_layout", hasWindowSize |-> "has_window_size"]

property_name_to_field_name(property_name) == SnakeCase[Fragment(property_name)]

\* the fields the Python classes of the registries declare beside those of Task
ClassFields ==
    [CanvasTaskCanvasMethod |-> {"has_layout"},
     NormalizationTaskNormalizationMethod |-> {},
     TrendCalculationTaskTrendCalculationMethod |-> {"has_window_size"}]

\* Class(task_iri, Task(task_parent_iri)): the object before the loop, its lists empty
\* and its other fields None
NewTaskObject(task) ==
    [iri |-> task.iri, parent |-> task.parent, class_name |-> task.class_name,
     has_input |-> <<>>, has_output |-> <<>>,
     fields |-> [f \in {"has_next_task"} \cup ClassFields[task.class_name] |-> NoneValue]]

NoObject ==
    [iri |-> NoIri, parent |-> NoIri, class_name |-> "", has_input |-> <<>>,
     has_output |-> <<>>, fields |-> [f \in {} |-> NoneValue]]

\* hasattr(task, field_name)
HasAttr(task, field_name) ==
    field_name \in {"type", "has_input", "has_output"} \cup DOMAIN task.fields

\* mutant: has_input is set like every other field
SetField_Overwrite(task, field_name, field_value) ==
    IF field_name = "has_input" THEN [task EXCEPT !.has_input = <<field_value>>]
    ELSE IF field_name = "has_output" THEN [task EXCEPT !.has_output = Append(@, field_value)]
    ELSE [task EXCEPT !.fields[field_name] = field_value]

\* parse_task_by_iri: set field value dynamically
SetField(task, field_name, field_value) ==
    IF field_name = "has_input" THEN [task EXCEPT !.has_input = Append(@, field_value)]
    ELSE IF field_name = "has_output" THEN [task EXCEPT !.has_output = Append(@, field_value)]
    ELSE [task EXCEPT !.fields[field_name] = field_value]

\* parse_task_by_iri, one iteration of the loop: the object after the triple t
FieldStep(kg, task, t) ==
    IF ~HasAttr(task, property_name_to_field_name(t[2]))
          \/ property_name_to_field_name(t[2]) = "type"
    THEN task
    ELSE SetField(task, property_name_to_field_name(t[2]),
                  property_value_to_field_value(kg, t[3], MaxNesting))

\* parse_task_by_iri, up to the loop: the class is resolved and the object created, or
\* the run ends in a fatal error
ParseTaskHead ==
    /\ pc = "running"
    /\ LET r == parse_task_by_iri(input_kg, next_task_iri, canvas_method)
       IN  IF r.status # "ok"
           THEN /\ pc' = "failed"
                /\ error' = <<r.status, next_task_iri, NamedInError(r.status, next_task_iri)>>
                /\ UNCHANGED <<task_obj, todo>>
           ELSE /\ pc' = "populating"
                /\ task_obj' = NewTaskObject(r.task)
                /\ todo' = {t \in input_kg : t[1] = next_task_iri}
                /\ UNCHANGED error
    /\ UNCHANGED <<bottom_level_schema, input_kg, next_task_iri, canvas_method, visited,
                   task_output_dict, parsed, saved_kg, saved_ns>>
    /\ UNCHANGED consVars

\* parse_task_by_iri, one iteration of the loop, in the order the graph yields the triples
PopulateField ==
    /\ pc = "populating"
    /\ \E t \in todo :
          /\ task_obj' = FieldStep(input_kg, task_obj, t)
          /\ todo' = todo \ {t}
    /\ UNCHANGED <<bottom_level_schema, input_kg, pc, next_task_iri, canvas_method, error,
                   visited, task_output_dict, parsed, saved_kg, saved_ns>>
    /\ UNCHANGED consVars

\* ExeKG.parse_data_entity_by_iri(in_out_data_entity_iri), called by a caller on an engine
\* that has loaded a file
ParseDataEntity(in_out_data_entity_iri) ==
    /\ pc = "loaded"
    /\ parsed' = <<in_out_data_entity_iri,
                   parse_data_entity_by_iri(input_kg, in_out_data_entity_iri, MaxNesting)>>
    /\ UNCHANGED <<bottom_level_schema, input_kg, pc, next_task_iri, canvas_method, error,
                   visited, task_output_dict, task_obj, todo, saved_kg, saved_ns>>
    /\ UNCHANGED consVars

-----------------------------------------------------------------------------
(* Specification: one construction session through the API, saved, loaded, executed *)

\* the engines before any call, whatever file there is
InitEngines ==
    /\ output_kg = {}
    /\ task_type_dict = InitialTypeDict(AtomicTaskIri)
    /\ method_type_dict = InitialTypeDict(AtomicMethodIri)
    /\ last_created_task = NoTask
    /\ halted = FALSE
    /\ entities = DescribedEntities
    /\ issued = <<>>
    /\ created = <<>>
    /\ last_call = [op |-> "init", status |-> "ok", before |-> {}, head |-> NoTask,
                    args |-> NoArgs]
    /\ standalone = 0
    /\ cli = [pc |-> "off", prev_task |-> NoTask, task |-> NoTask, existing |-> <<>>,
              tasks |-> <<>>]
    /\ bottom_level_schema = ""
    /\ input_kg = {}
    /\ pc = "idle"
    /\ next_task_iri = NoIri
    /\ canvas_method = 0
    /\ error = <<"", NoIri, NoIri>>
    /\ visited = <<>>
    /\ task_output_dict = <<>>
    /\ parsed = <<NoIri, NoneValue>>
    /\ task_obj = NoObject
    /\ todo = {}
    /\ other = NewEngine

Init ==
    /\ schema_kg = PublishedSchemaKG
    /\ InitEngines
    /\ saved_kg = NoFile
    /\ saved_ns = {}

Next ==
    \/ \E n \in PipelineNames, d \in InputDataPaths : CreatePipeline(n, d)
    \/ \E t \in DOMAIN task_type_dict, m \in DOMAIN method_type_dict, v \in BOOLEAN :
         \E i \in ChainInputDicts(t, entities), p \in PropertyDicts : AddTask(t, i, m, p, v)
    \/ SaveCreatedKg
    \/ LoadKG
    \/ Locate
    \/ RunTask

Spec == Init /\ [][Next]_vars

\* the task types with input slots, and a method type compatible with each of them
ApiTaskTypes == {Fragment(r[2]) : r \in Range(InputRows)}
ApiMethodTypes == {"NormalizationMethod"}
ApiPropertyDict == [n \in PropertyNames |-> "5"]

\* the dicts of the caller's own add_inputs_to_task calls: lists of at most one entity
StandaloneInputDicts(task_type) ==
    {f \in InputDicts(task_type, DescribedEntities) : \A n \in DOMAIN f : Len(f[n]) <= 1}

(* Specification: one construction session through the API, with the input dicts a *)
(* caller can pass and its own add_inputs_to_task calls                            *)

NextAPI ==
    \/ \E n \in PipelineNames, d \in InputDataPaths : CreatePipeline(n, d)
    \/ \E t \in ApiTaskTypes, m \in ApiMethodTypes :
         \E i \in InputDicts(t, DescribedEntities) : AddTask(t, i, m, ApiPropertyDict, FALSE)
    \/ \E k \in DOMAIN created :
         \E i \in StandaloneInputDicts(created[k].task_type) : AddInputsToTask(k, i)
    \/ \E k \in DOMAIN created : AddOutputsToTask(k)

SpecAPI == Init /\ [][NextAPI]_vars

(* Specification: a file from elsewhere is loaded and executed *)

\* the arguments of add_task calls that succeed on any chain
FileCalls ==
    { <<"CanvasTask", [n \in {} |-> <<>>], "CanvasMethod", ApiPropertyDict, TRUE>>,
      <<"NormalizationTask", [n \in SlotNames("NormalizationTask") |-> <<>>],
        "NormalizationMethod", ApiPropertyDict, FALSE>>,
      <<"TrendCalculationTask", [n \in SlotNames("TrendCalculationTask") |-> <<>>],
        "NormalizationMethod", ApiPropertyDict, FALSE>> }

\* the tasks a file chains
FileTasks == 2

CallOn(r, c) ==
    add_task(r.kg, r.task_type_dict, r.method_type_dict, r.task, c[1], c[2], c[3], c[4], c[5])

RECURSIVE BuiltAfter(_)
\* the engine after create_pipeline_task and the add_task calls of a list
BuiltAfter(calls) ==
    IF calls = <<>>
    THEN [status |-> "ok",
          kg |-> PipelineTriples(Iri(BOTTOM, "MyPipeline"), "data.csv"),
          task_type_dict |-> InitialTypeDict(AtomicTaskIri),
          method_type_dict |-> InitialTypeDict(AtomicMethodIri),
          task |-> Entity(Iri(BOTTOM, "MyPipeline"), PipelineIri),
          input_dict |-> <<>>, output_dict |-> <<>>, names |-> <<>>]
    ELSE CallOn(BuiltAfter(SubSeq(calls, 1, Len(calls) - 1)), calls[Len(calls)])

\* the statements of a graph that give a task its class
TaskTypeTriples(kg) ==
    {t \in kg : t[2] = RDF_TYPE /\ <<t[3], SUBCLASS, AtomicTaskIri>> \in SchemaKG}

\* the files at input_exe_kg_path: a saved chain, as it was written or with the class
\* of some of its tasks deleted
ForeignFiles ==
    UNION {{BuiltAfter(c).kg \ D : D \in SUBSET TaskTypeTriples(BuiltAfter(c).kg)} :
           c \in [1 .. FileTasks -> FileCalls]}

\* the bindings a file can declare: the prefixes of KG_SCHEMAS for their namespaces, or
\* another prefix for the namespace of the Statistics schema
ForeignBindings ==
    SUBSET {<<"stats", "stats">>, <<"ml", "ml">>, <<"visu", VISU>>, <<"s", "stats">>}

InitLoad ==
    /\ schema_kg = PublishedSchemaKG
    /\ InitEngines
    /\ saved_kg \in ForeignFiles
    /\ saved_ns \in ForeignBindings

NextLoad ==
    \/ LoadKG
    \/ Locate
    \/ RunTask

SpecLoad == InitLoad /\ [][NextLoad]_vars

(* Specification: a file with one task is loaded and the task is parsed *)

\* the add_task calls that built the task: no, one or two inputs, a method with or
\* without a data property
ParseCalls ==
    {<<"NormalizationTask", [n \in SlotNames("NormalizationTask") |-> b],
       "NormalizationMethod", ApiPropertyDict, FALSE>> : b \in BindingLists(DescribedEntities)}
    \cup {<<"TrendCalculationTask", [n \in SlotNames("TrendCalculationTask") |-> <<>>],
            "TrendCalculationMethod", ApiPropertyDict, FALSE>>,
          <<"CanvasTask", [n \in {} |-> <<>>], "CanvasMethod",
            [n \in PropertyNames |-> "grid"], TRUE>>}

\* next-links the file can hold for the task beside the triples add_task wrote
ExtraLinks(task_iri) ==
    {<<task_iri, HasNextTask, Iri(BOTTOM, "NormalizationTask8")>>,
     <<task_iri, HasNextTask, Iri(BOTTOM, "NormalizationTask9")>>}

ParseFiles ==
    UNION {{BuiltAfter(<<c>>).kg \cup X : X \in SUBSET ExtraLinks(BuiltAfter(<<c>>).task.iri)} :
           c \in ParseCalls}

InitParse ==
    /\ schema_kg = PublishedSchemaKG
    /\ InitEngines
    /\ saved_kg \in ParseFiles
    /\ saved_ns = UsedNamespaces

NextParse ==
    \/ LoadKG
    \/ Locate
    \/ ParseTaskHead
    \/ PopulateField

SpecParse == InitParse /\ [][NextParse]_vars

(* Specification: a file of data entities is loaded and its nodes are parsed *)

\* the nodes of a file of data entities
EntityNodes == 3

EntityIri(i) == Iri(BOTTOM, "entity_" \o ToString(i))

\* a node is a described data entity or has no class, and references one node or none
EntityShapes == [1 .. EntityNodes -> [typed : BOOLEAN, ref : 0 .. EntityNodes]]

EntityFile(shape) ==
    UNION {(IF shape[i].typed
            THEN DataEntityTriples(create_data_entity(
                     Fragment(EntityIri(i)), Fragment(EntityIri(i)), "TimeSeries", "Vector"))
            ELSE {})
           \cup (IF shape[i].ref # 0
                 THEN {<<EntityIri(i), HasReference, EntityIri(shape[i].ref)>>}
                 ELSE {}) :
           i \in 1 .. EntityNodes}

InitEntity ==
    /\ schema_kg = PublishedSchemaKG
    /\ InitEngines
    /\ saved_kg \in {EntityFile(shape) : shape \in EntityShapes}
    /\ saved_ns = UsedNamespaces

NextEntity ==
    \/ LoadKG
    \/ \E i \in 1 .. EntityNodes : ParseDataEntity(EntityIri(i))

SpecEntity == InitEntity /\ [][NextEntity]_vars

(* Specification: construction with the schema documents as published, or with a *)
(* method class of another schema declared compatible with a task                 *)

InitSchema ==
    /\ schema_kg \in {PublishedSchemaKG, ExtendedSchemaKG}
    /\ InitEngines
    /\ saved_kg = NoFile
    /\ saved_ns = {}

NextSchema ==
    \/ \E n \in PipelineNames, d \in InputDataPaths : CreatePipeline(n, d)
    \/ \E t \in DOMAIN task_type_dict, m \in DOMAIN method_type_dict, v \in BOOLEAN :
         \E i \in ChainInputDicts(t, entities), p \in PropertyDicts : AddTask(t, i, m, p, v)

SpecSchema == InitSchema /\ [][NextSchema]_vars

(* Specification: two engines of one process construct, their calls interleaved *)

\* the method types the callers of the two engines name
TwoMethodTypes == {"NormalizationMethod", "TrendCalculationMethod"}

\* the input dict with an empty list for every slot of a task type
NoInputs(task_type) == [n \in SlotNames(task_type) |-> <<>>]

NextTwo ==
    \/ \E n \in PipelineNames, d \in InputDataPaths : CreatePipeline(n, d)
    \/ \E t \in ApiTaskTypes, m \in TwoMethodTypes :
         AddTask(t, NoInputs(t), m, ApiPropertyDict, FALSE)
    \/ \E n \in PipelineNames, d \in InputDataPaths : CreatePipelineOther(n, d)
    \/ \E t \in ApiTaskTypes, m \in TwoMethodTypes :
         AddTaskOther(t, NoInputs(t), m, ApiPropertyDict, FALSE)

SpecTwo == Init /\ [][NextTwo]_vars

(* Specification: one interactive construction session *)

NextCLI ==
    \/ \E n \in PipelineNames, d \in InputDataPaths : StartPipelineCreation(n, d)
    \/ \E id \in {-1} \cup {i - 1 : i \in DOMAIN atomic_task_list}, srcs \in NewSourceLists :
         \E chosen \in SUBSET Range(cli.existing) : CreateNextTaskCli(id, chosen, srcs)
    \/ \E id \in {0, 1}, value \in {"5"} : CreateMethodCli(id, value)

SpecCLI == Init /\ [][NextCLI]_vars

-----------------------------------------------------------------------------
(* Properties *)

\* the names issued so far for a kind ("task", "method") and type, among the first n
IssuedFor(kind, type_name, n) ==
    {j \in 1 .. n : issued[j][1] = kind /\ issued[j][2] = type_name}

\* C1: the k-th name issued for a task type or a method type is <type>k, the counter
\* of every schema-declared type is 1 plus the number of names issued for it, and no
\* name is issued twice
C1_NamesAreTypeAndOrdinal ==
    /\ \A i \in DOMAIN issued :
          issued[i][3] = issued[i][2] \o ToString(Cardinality(IssuedFor(issued[i][1], issued[i][2], i)))
    /\ \A i, j \in DOMAIN issued : i # j => issued[i][3] # issued[j][3]
    /\ DOMAIN task_type_dict = {Fragment(c) : c \in get_subclasses_of(AtomicTaskIri, SchemaKG)}
    /\ DOMAIN method_type_dict = {Fragment(c) : c \in get_subclasses_of(AtomicMethodIri, SchemaKG)}
    /\ \A t \in DOMAIN task_type_dict :
          task_type_dict[t] = 1 + Cardinality(IssuedFor("task", t, Len(issued)))
    /\ \A m \in DOMAIN method_type_dict :
          method_type_dict[m] = 1 + Cardinality(IssuedFor("method", m, Len(issued)))

\* two tasks of one type and their methods have been named
C1_Witness ==
    /\ Len(created) = 2
    /\ created[1].task_type = created[2].task_type
    /\ Cardinality(IssuedFor("method", created[1].method_type, Len(issued))) = 2

\* C2 as claimed: an add_task that ends in IncompatibleMethod leaves the output graph
\* as it was before the call
C2_FailedCallLeavesGraph ==
    (last_call.op = "add_task" /\ last_call.status = "IncompatibleMethod")
        => output_kg = last_call.before

\* the tasks of a graph in chain order: the pipeline's start task, then the next-links
RECURSIVE ChainFrom(_, _, _)
ChainFrom(kg, iri, fuel) ==
    IF fuel = 0 THEN <<>>
    ELSE LET nexts == ObjectsOf(kg, iri, HasNextTask)
         IN  IF nexts = {} THEN <<iri>>
             ELSE <<iri>> \o ChainFrom(kg, CHOOSE n \in nexts : TRUE, fuel - 1)

ChainOf(kg) ==
    LET starts == {t[3] : t \in {u \in kg : u[2] = HasStartTask}}
    IN  IF starts = {} THEN <<>> ELSE ChainFrom(kg, CHOOSE n \in starts : TRUE, MaxTasks + 1)

VisitedIris == [i \in DOMAIN visited |-> visited[i].iri]
CreatedIris == [i \in DOMAIN created |-> created[i].iri]

IsPrefix(s, t) == Len(s) <= Len(t) /\ \A i \in DOMAIN s : s[i] = t[i]

\* a task IRI of kg resolves: it has a task class, a method and a registered Python class
Resolves(kg, iri) == parse_task_by_iri(kg, iri, 0).status = "ok"

\* C3: the run visits the tasks of the chain T1..TN in chain order, each once; it is
\* DONE only after TN; it ends in an error only at a task that does not resolve
C3_RunFollowsChain ==
    pc \in {"running", "done", "failed"} =>
        /\ IsPrefix(VisitedIris, ChainOf(input_kg))
        /\ \A i, j \in DOMAIN visited : i # j => visited[i].iri # visited[j].iri
        /\ pc = "done" => VisitedIris = ChainOf(input_kg)
        /\ pc = "running" =>
              /\ Len(visited) < Len(ChainOf(input_kg))
              /\ next_task_iri = ChainOf(input_kg)[Len(visited) + 1]
        /\ (pc = "failed" /\ ChainOf(input_kg) # <<>>) =>
              /\ error[2] = ChainOf(input_kg)[Len(visited) + 1]
              /\ ~Resolves(input_kg, error[2])

\* a chain of two tasks has been run to DONE
C3_Witness ==
    /\ pc = "done"
    /\ Len(ChainOf(input_kg)) = 2
    /\ Len(visited) = 2

\* C4: the run of the saved graph visits the tasks add_task created, in the order of
\* the calls, and is DONE only after all of them
C4_RoundTripOrder ==
    pc \in {"running", "done", "failed"} =>
        /\ IsPrefix(VisitedIris, CreatedIris)
        /\ pc = "done" => VisitedIris = CreatedIris
        /\ pc = "running" => next_task_iri = CreatedIris[Len(visited) + 1]

\* two constructed tasks of different types were saved, loaded and run in order
C4_Witness ==
    /\ pc = "done"
    /\ Len(created) = 2
    /\ created[1].task_type # created[2].task_type
    /\ VisitedIris = CreatedIris

\* C5: the i-th task object of the run has the task type and the method type given to
\* the i-th add_task and the class named by their concatenation; the run ends
\* unresolvable only at a task whose concatenated name no registry holds
C5_RoundTripTypes ==
    /\ \A i \in DOMAIN visited :
          /\ i <= Len(created)
          /\ visited[i].iri = created[i].iri
          /\ Fragment(visited[i].parent) = created[i].task_type
          /\ visited[i].method_type = created[i].method_type
          /\ visited[i].class_name = created[i].task_type \o created[i].method_type
          /\ visited[i].registry = ResolveClass(created[i].task_type \o created[i].method_type)
    /\ pc = "failed" =>
          \A i \in DOMAIN created :
             created[i].iri = error[2] =>
                /\ error[1] = "Unresolvable"
                /\ ResolveClass(created[i].task_type \o created[i].method_type) = ""

\* a canvas task and a normalization task were reconstructed with their classes
C5_Witness ==
    /\ Len(visited) = 2
    /\ visited[1].class_name = "CanvasTaskCanvasMethod"
    /\ visited[2].class_name = "NormalizationTaskNormalizationMethod"

\* C6 as claimed: every input of a reconstructed task is a DataEntity object whose
\* has_reference is the name of the entity its node references in the graph
C6_ParsedCopyNamesOriginal ==
    \A i \in DOMAIN visited :
       \A v \in visited[i].has_input :
          /\ v[1] = "obj"
          /\ \A e \in ObjectsOf(input_kg, v[2].iri, HasReference) :
                v[2].has_reference = StrValue(Fragment(e))

MaxOf(S) == CHOOSE m \in S : \A n \in S : m >= n

\* the last canvas task among the first n task objects of the run (0: none)
LastCanvas(n) ==
    LET canvases == {k \in 1 .. n : Fragment(visited[k].parent) = "CanvasTask"}
    IN  IF canvases = {} THEN 0 ELSE MaxOf(canvases)

\* C7: the canvas context is None until a canvas task has run and from then on the
\* object of the canvas task that ran last; every task object was constructed with the
\* context of that moment
C7_CanvasContinuity ==
    /\ canvas_method = LastCanvas(Len(visited))
    /\ \A i \in DOMAIN visited : visited[i].canvas = LastCanvas(i - 1)

\* a task that is no canvas task was constructed with the canvas task run before it
C7_Witness ==
    /\ Len(visited) = 2
    /\ Fragment(visited[1].parent) = "CanvasTask"
    /\ Fragment(visited[2].parent) # "CanvasTask"
    /\ visited[2].canvas = 1
    /\ canvas_method = 1

Roots(kg) == {t[1] : t \in {u \in kg : u[2] = RDF_TYPE /\ u[3] = PipelineIri}}

\* C8: after create_pipeline_task and successful add_task calls the output graph holds
\* one start-link, from the root to the first task, one next-link from each task to
\* the task added after it and no other, and the chain head is the task added last
C8_SinglyLinkedChain ==
    (~halted /\ last_created_task # NoTask) =>
        /\ Cardinality(Roots(output_kg)) = 1
        /\ \A i, j \in DOMAIN created : i # j => created[i].iri # created[j].iri
        /\ \A i \in DOMAIN created : created[i].iri \notin Roots(output_kg)
        /\ {t \in output_kg : t[2] = HasStartTask} =
              {<<r, HasStartTask, created[i].iri>> :
                  <<r, i>> \in Roots(output_kg) \X {k \in DOMAIN created : k = 1}}
        /\ {t \in output_kg : t[2] = HasNextTask} =
              {<<created[i].iri, HasNextTask, created[i + 1].iri>> :
                  i \in {k \in DOMAIN created : k < Len(created)}}
        /\ last_created_task.iri \in
              (IF created = <<>> THEN Roots(output_kg) ELSE {created[Len(created)].iri})

\* two tasks were added: root -> first -> second
C8_Witness ==
    /\ ~halted
    /\ Len(created) = 2
    /\ <<created[1].iri, HasNextTask, created[2].iri>> \in output_kg
    /\ last_created_task.iri = created[2].iri

\* C9 as claimed: no node is the output of two tasks
C9_OutputHasOneProducer ==
    \A t, u \in {w \in output_kg : w[2] = HasOutput} : t[3] = u[3] => t[1] = u[1]

\* C10 as claimed: every node attached to a task by the input relation carries a
\* reference to its original and is the input of that task alone
C10_InputsAreOwnCopies ==
    \A t \in {w \in output_kg : w[2] = HasInput} :
       /\ ObjectsOf(output_kg, t[3], HasReference) # {}
       /\ \A u \in {w \in output_kg : w[2] = HasInput} : u[3] = t[3] => u[1] = t[1]

\* the nodes of a graph whose class is a method class of the schema
MethodNodes(kg) ==
    {t[1] : t \in {u \in kg : u[2] = RDF_TYPE /\ <<u[3], SUBCLASS, AtomicMethodIri>> \in SchemaKG}}

\* the <<relation, method class>> pairs the schema declares for the classes of a node
DeclaredMethodPairs(kg, task_iri) ==
    UNION {Range(get_method_properties_and_methods(SchemaKG, c)) : c \in ObjectsOf(kg, task_iri, RDF_TYPE)}

\* C11: every method node is the object of one triple, whose subject is a task and whose
\* relation the schema pairs with the node's class for the task's class; every task a
\* successful add_task created has exactly one method node
C11_MethodAttachedByDeclaredRelation ==
    /\ \A m \in MethodNodes(output_kg) :
          /\ Cardinality({u \in output_kg : u[3] = m}) = 1
          /\ \A u \in {w \in output_kg : w[3] = m} :
                \A c \in ObjectsOf(output_kg, m, RDF_TYPE) :
                   <<u[2], c>> \in DeclaredMethodPairs(output_kg, u[1])
    /\ \A i \in DOMAIN created :
          Cardinality({u \in output_kg : u[1] = created[i].iri /\ u[3] \in MethodNodes(output_kg)}) = 1

\* two tasks of the class with two compatible methods took one method each
C11_Witness ==
    /\ ~halted
    /\ Len(created) = 2
    /\ \E t, u \in output_kg :
          /\ t[2] = Iri(BOTTOM, "hasTrendMethod")
          /\ u[2] = Iri(BOTTOM, "hasDetrendMethod")

\* the data properties the schema declares for the method class of a call, inherited
\* ones included
DeclaredProperties(method_type, visualization) ==
    get_data_properties_plus_inherited_by_class_iri(
        SchemaKG, Iri(NamespaceToUse(visualization), method_type))

\* the declared properties a call supplied no value for
Unsupplied(declared, data_properties) ==
    {k \in DOMAIN declared : Fragment(declared[k][1]) \notin DOMAIN data_properties}

LiteralsOf(kg, iri) == {u \in kg : u[1] = iri /\ u[3][1] = "lit"}

\* C12: after a successful add_task the literals of the task are one per declared
\* property of the method class, with the supplied value and the declared range; a call
\* that leaves a declared property without a value is fatal, ends in MissingProperty
\* when it gets that far, returns no task and leaves the chain head
C12_PropertiesAttachedOrFatal ==
    last_call.op = "add_task" =>
        /\ last_call.status = "ok" =>
              /\ Unsupplied(DeclaredProperties(last_call.args.method_type,
                                               last_call.args.visualization),
                            last_call.args.data_properties) = {}
              /\ LiteralsOf(output_kg, last_created_task.iri) =
                    {<<last_created_task.iri, d[1],
                       Lit(last_call.args.data_properties[Fragment(d[1])], d[2])>> :
                        d \in Range(DeclaredProperties(last_call.args.method_type,
                                                       last_call.args.visualization))}
              /\ Cardinality(LiteralsOf(output_kg, last_created_task.iri)) =
                    Len(DeclaredProperties(last_call.args.method_type,
                                           last_call.args.visualization))
        /\ Unsupplied(DeclaredProperties(last_call.args.method_type,
                                         last_call.args.visualization),
                      last_call.args.data_properties) # {} =>
              /\ last_call.status \in {"NoPipeline", "MissingInput", "IncompatibleMethod",
                                        "MissingProperty"}
              /\ halted
              /\ last_created_task = last_call.head
        /\ last_call.status = "MissingProperty" =>
              Unsupplied(DeclaredProperties(last_call.args.method_type,
                                            last_call.args.visualization),
                         last_call.args.data_properties) # {}

\* a task took an inherited property and was given a value for an undeclared one too
C12_Witness ==
    /\ last_call.op = "add_task"
    /\ last_call.status = "ok"
    /\ last_call.args.method_type = "TrendCalculationMethod"
    /\ "hasLayout" \in DOMAIN last_call.args.data_properties
    /\ LiteralsOf(output_kg, last_created_task.iri) =
          {<<last_created_task.iri, Iri(BOTTOM, "hasWindowSize"), Lit("5", XsdInt)>>}

\* the input slots the schema declares for the task class of a call
DeclaredSlots(task_type, visualization) ==
    Range(get_input_properties_and_inputs(SchemaKG, Iri(NamespaceToUse(visualization), task_type)))

\* the declared slots a call passed no key for
MissingSlots(args) ==
    {q \in DeclaredSlots(args.task_type, args.visualization) :
        Fragment(q[2]) \notin DOMAIN args.lengths}

\* C13: an add_task or add_inputs_to_task whose dict lacks a key for a declared slot is
\* fatal whatever the other keys are: the process ends, no task is returned and the
\* chain head stays; the call ends in the missing-key error when a pipeline exists, and
\* only then
C13_MissingSlotIsFatal ==
    last_call.op \in {"add_task", "add_inputs_to_task"} =>
        /\ MissingSlots(last_call.args) # {} =>
              /\ last_call.status # "ok"
              /\ halted
              /\ last_created_task = last_call.head
              /\ last_call.head # NoTask => last_call.status = "MissingInput"
              /\ (last_call.op = "add_task" /\ last_call.head # NoTask) =>
                    Iri(BOTTOM, issued[Len(issued)][3]) \notin Range(CreatedIris)
        /\ last_call.status = "MissingInput" => MissingSlots(last_call.args) # {}

\* an add_task that supplied the first of two declared slots but not the second ended
\* in the missing-key error
C13_Witness ==
    /\ last_call.op = "add_task"
    /\ last_call.status = "MissingInput"
    /\ DOMAIN last_call.args.lengths = {"DataInTrendCalculation"}
    /\ Cardinality(DeclaredSlots(last_call.args.task_type, last_call.args.visualization)) = 2
    /\ halted

\* the nodes of a slot class a task has as inputs
InputsOfClass(kg, task_iri, slot_class) ==
    {u[3] : u \in {w \in kg : /\ w[1] = task_iri
                               /\ w[2] = HasInput
                               /\ <<w[3], RDF_TYPE, slot_class>> \in kg}}

\* C20 as claimed: after a successful add_task, for each supplied slot with a list of k
\* entities the task has exactly the k input nodes <slot><ordinal>_1 .. <slot><ordinal>_k
\* of the slot's class, and each of them is a value of the task's input_dict
C20_EveryCopyNamedAndRecorded ==
    (last_call.op = "add_task" /\ last_call.status = "ok") =>
        \A q \in DeclaredSlots(last_call.args.task_type, last_call.args.visualization) :
           /\ InputsOfClass(output_kg, last_created_task.iri, q[2]) =
                 {Iri(q[2][2], Fragment(q[2])
                               \o ToString(task_type_dict[last_call.args.task_type] - 1)
                               \o "_" \o ToString(j)) :
                     j \in 1 .. last_call.args.lengths[Fragment(q[2])]}
           /\ InputsOfClass(output_kg, last_created_task.iri, q[2]) \subseteq
                 {e.iri : e \in FunctionRange(created[Len(created)].input_dict)}

\* C17 as claimed: the file save_created_kg wrote holds the triples of the schema graphs
\* and the output triples of the moment of the call
C17_SavedFileHoldsSchema ==
    saved_kg # NoFile => saved_kg = SchemaKG \cup output_kg

\* C18 as claimed: the output data entities of every task create_next_task_cli created
\* are in existing_data_entity_list, to be offered as inputs of later tasks
C18_OutputsOfferedAsExisting ==
    \A u \in {w \in output_kg : w[2] = HasOutput /\ w[1] \in Range(cli.tasks)} :
       u[3] \in {e.iri : e \in Range(cli.existing)}

AllRegistered == visual_tasks \cup statistic_tasks \cup ml_tasks

\* the class names taskType+methodType a task node of a graph can be given
ClassNamesOf(kg, task_iri) ==
    {Fragment(c) \o Type(m) :
        <<c, m>> \in query_entity_parent_iri(kg, task_iri, AtomicTaskIri)
                     \X get_method_by_task_iri(kg, task_iri)}

\* C14 as claimed: a task whose name taskType+methodType is in no registry is not run
\* and ends the run in the unresolvable-implementation error, and that error identifies
\* the task
C14_UnresolvableNamesTask ==
    /\ \A i \in DOMAIN visited : visited[i].class_name \in AllRegistered
    /\ (pc = "failed" /\ error[2] # NoIri /\ ClassNamesOf(input_kg, error[2]) # {}
            /\ ClassNamesOf(input_kg, error[2]) \cap AllRegistered = {}) =>
          error[1] = "Unresolvable"
    /\ (pc = "failed" /\ error[1] = "Unresolvable") =>
          /\ error[2] \notin Range(VisitedIris)
          /\ error[3] = error[2]

\* the positions of a chain whose task has no class under AtomicTask in the graph
Orphans(kg, chain) ==
    {k \in DOMAIN chain : query_entity_parent_iri(kg, chain[k], AtomicTaskIri) = {}}

\* C15: a task whose class cannot be found is never made an object or run; the run
\* reaches it after the tasks before it in the chain have run, ends there in the
\* malformed-graph error, and neither it nor a later task is run
C15_MalformedGraphFailsFast ==
    /\ \A i \in DOMAIN visited :
          query_entity_parent_iri(input_kg, visited[i].iri, AtomicTaskIri) # {}
    /\ (pc \in {"running", "done", "failed"} /\ Orphans(input_kg, ChainOf(input_kg)) # {}) =>
          /\ pc # "done"
          /\ Len(visited) < MinOf(Orphans(input_kg, ChainOf(input_kg)))
    /\ (pc = "failed" /\ error[1] = "MalformedGraph") =>
          /\ IsPrefix(VisitedIris, ChainOf(input_kg))
          /\ error[2] = ChainOf(input_kg)[Len(visited) + 1]
          /\ Len(visited) + 1 = MinOf(Orphans(input_kg, ChainOf(input_kg)))
    /\ (pc = "failed" /\ error[2] # NoIri
            /\ query_entity_parent_iri(input_kg, error[2], AtomicTaskIri) = {}) =>
          error[1] = "MalformedGraph"

\* the first task of a chain ran and the run ended at the second, whose class is missing
C15_Witness ==
    /\ pc = "failed"
    /\ error[1] = "MalformedGraph"
    /\ Len(visited) = 1
    /\ Len(ChainOf(input_kg)) = 2

\* a file binds a namespace: some prefix stands for it
NamespaceBound(all_ns, namespace) == \E b \in all_ns : b[2] = namespace

\* the names of the domain-specific schemas whose namespace a file binds
DomainSchemasOf(all_ns) ==
    {i.name : i \in {j \in Range(KG_SCHEMAS) :
                        /\ j.name \notin {"Data Science", "Visualization"}
                        /\ NamespaceBound(all_ns, j.namespace)}}

\* C16 as claimed: loading chooses a domain-specific schema whose namespace the file
\* binds, the Visualization schema only when the file binds no domain-specific one, and
\* fails without an engine only when the file binds none of them
C16_BottomSchemaFromBoundNamespace ==
    pc # "idle" =>
        /\ DomainSchemasOf(saved_ns) # {} => bottom_level_schema \in DomainSchemasOf(saved_ns)
        /\ (DomainSchemasOf(saved_ns) = {} /\ NamespaceBound(saved_ns, VISU)) =>
              bottom_level_schema = "Visualization"
        /\ bottom_level_schema = "Visualization" => DomainSchemasOf(saved_ns) = {}
        /\ (DomainSchemasOf(saved_ns) = {} /\ ~NamespaceBound(saved_ns, VISU)) =>
              /\ pc = "failed"
              /\ error[1] = "SchemaResolution"
              /\ bottom_level_schema = ""
              /\ input_kg = {}
        /\ error[1] = "SchemaResolution" =>
              (DomainSchemasOf(saved_ns) = {} /\ ~NamespaceBound(saved_ns, VISU))

\* C19: the class of every task object comes from the first of the registries
\* visual_tasks, statistic_tasks, ml_tasks that holds its name
C19_FirstRegistryWins ==
    \A i \in DOMAIN visited :
       /\ visited[i].class_name \in visual_tasks => visited[i].registry = "visual_tasks"
       /\ (visited[i].class_name \notin visual_tasks
              /\ visited[i].class_name \in statistic_tasks) =>
             visited[i].registry = "statistic_tasks"
       /\ (visited[i].class_name \notin visual_tasks
              /\ visited[i].class_name \notin statistic_tasks
              /\ visited[i].class_name \in ml_tasks) =>
             visited[i].registry = "ml_tasks"
       /\ visited[i].registry \in {"visual_tasks", "statistic_tasks", "ml_tasks"}

\* a name held by the first and the last registry came from the first, and a name only
\* the last registry holds came from the last
C19_Witness ==
    /\ Len(visited) = 2
    /\ visited[1].class_name \in visual_tasks \cap ml_tasks
    /\ visited[1].registry = "visual_tasks"
    /\ visited[2].class_name \in ml_tasks \ (visual_tasks \cup statistic_tasks)
    /\ visited[2].registry = "ml_tasks"

\* the copies one call binds to a slot, at most
MaxCopies == MaxOf({Len(b) : b \in BindingLists(DescribedEntities)})

\* the names <slot><k>_<j> of the input entities of the k-th task of a type
InputNamesFor(k) ==
    {Iri(q[3][2], Fragment(q[3]) \o ToString(k) \o "_" \o ToString(j)) :
        <<q, j>> \in Range(InputRows) \X (1 .. MaxCopies)}

\* the names <slot><k> of the output entities of the k-th task of a type
OutputNamesFor(k) ==
    {Iri(q[3][2], Fragment(q[3]) \o ToString(k)) : q \in Range(OutputRows)}

\* C21 as claimed: the input and output data entities of a task named <type>k carry the
\* ordinal k in their names, whichever call created them
C21_EntityOrdinalIsTaskOrdinal ==
    \A i \in DOMAIN created :
       \E k \in 1 .. MaxTasks + 1 :
          /\ created[i].iri = Iri(BOTTOM, created[i].task_type \o ToString(k))
          /\ ObjectsOf(output_kg, created[i].iri, HasInput) \subseteq InputNamesFor(k)
          /\ ObjectsOf(output_kg, created[i].iri, HasOutput) \subseteq OutputNamesFor(k)

\* the triples of the task the loop has visited
VisitedTriples == {t \in input_kg : t[1] = task_obj.iri} \ todo

\* the visited triples whose predicate maps to a field name
MappedTo(field_name) ==
    {t \in VisitedTriples : property_name_to_field_name(t[2]) = field_name}

\* the field value of the object of a triple
FieldValueOf(t) == property_value_to_field_value(input_kg, t[3], MaxNesting)

\* while the loop runs: each list holds one entry per visited triple of its predicate, every
\* other declared field is None until a triple of its predicate is visited and then the
\* value of one of them, and the declared fields and the type are those of the new object
C22_FieldsOfVisitedTriples ==
    pc = "populating" =>
        /\ Len(task_obj.has_input) = Cardinality(MappedTo("has_input"))
        /\ Range(task_obj.has_input) = {FieldValueOf(t) : t \in MappedTo("has_input")}
        /\ Len(task_obj.has_output) = Cardinality(MappedTo("has_output"))
        /\ Range(task_obj.has_output) = {FieldValueOf(t) : t \in MappedTo("has_output")}
        /\ DOMAIN task_obj.fields = {"has_next_task"} \cup ClassFields[task_obj.class_name]
        /\ \A f \in DOMAIN task_obj.fields :
              IF MappedTo(f) = {} THEN task_obj.fields[f] = NoneValue
              ELSE task_obj.fields[f] \in {FieldValueOf(t) : t \in MappedTo(f)}
        /\ task_obj.iri = next_task_iri
        /\ task_obj.parent \in query_entity_parent_iri(input_kg, next_task_iri, AtomicTaskIri)

\* one iteration: a triple of has_input or has_output appends its value to the list, a
\* triple of another declared field replaces the field's value, a triple of an
\* undeclared field or of the type changes nothing
C22_FieldOfOneTriple ==
    (pc = "populating" /\ pc' = "populating") =>
        \A t \in todo \ todo' :
           IF property_name_to_field_name(t[2]) = "has_input"
           THEN task_obj' = [task_obj EXCEPT !.has_input = Append(@, FieldValueOf(t))]
           ELSE IF property_name_to_field_name(t[2]) = "has_output"
           THEN task_obj' = [task_obj EXCEPT !.has_output = Append(@, FieldValueOf(t))]
           ELSE IF property_name_to_field_name(t[2]) \in DOMAIN task_obj.fields
           THEN task_obj' = [task_obj EXCEPT
                                !.fields[property_name_to_field_name(t[2])] = FieldValueOf(t)]
           ELSE task_obj' = task_obj

\* C22: parsing a task populates the fields of the new object generically: has_input and
\* has_output take one appended entry per triple (k input triples give k entries), every
\* other declared field is overwritten with the value of the triple, and a triple of an
\* undeclared field or of the type field changes nothing
C22_GenericFieldPopulation == []C22_FieldsOfVisitedTriples /\ [][C22_FieldOfOneTriple]_vars

\* a task with two input triples and two next-links has been parsed: two entries, and
\* one of the links as has_next_task
C22_Witness ==
    /\ pc = "populating"
    /\ todo = {}
    /\ Len(task_obj.has_input) = 2
    /\ Cardinality(ObjectsOf(input_kg, task_obj.iri, HasNextTask)) = 2
    /\ task_obj.fields["has_next_task"] # NoneValue
    /\ VisitedTriples # {}

\* the names returned by the tasks that ran before the k-th
KeysBefore(k) == UNION {DOMAIN visited[j].output : j \in 1 .. k - 1}

\* the map the outputs of the tasks before the k-th make, a later value over an earlier
MapBefore(k) ==
    [key \in KeysBefore(k) |->
        visited[MaxOf({j \in 1 .. k - 1 : key \in DOMAIN visited[j].output})].output[key]]

\* C23: the shared output map is empty when the first task runs; the k-th task is given
\* every named output the tasks 1..k-1 returned, the later value on a collision; no key
\* is removed during a run; a task that returns nothing leaves the map unchanged
C23_SharedOutputMap ==
    /\ \A k \in DOMAIN visited : visited[k].seen = MapBefore(k)
    /\ task_output_dict = MapBefore(Len(visited) + 1)
    /\ \A k \in DOMAIN visited :
          /\ DOMAIN visited[k].seen \subseteq DOMAIN task_output_dict
          /\ \A j \in 1 .. k : DOMAIN visited[j].seen \subseteq DOMAIN visited[k].seen
          /\ visited[k].output = <<>> =>
                visited[k].seen =
                    (IF k < Len(visited) THEN visited[k + 1].seen ELSE task_output_dict)

\* two tasks returned a value under the same name: the second was given the value of
\* the first, and the map holds the value of the second
C23_Witness ==
    /\ Len(visited) = 2
    /\ visited[1].seen = <<>>
    /\ \E key \in DOMAIN visited[1].output \cap DOMAIN visited[2].output :
          /\ visited[2].seen[key] = 1
          /\ task_output_dict[key] = 2

DataEntityFields == {"has_reference", "has_source", "has_data_semantics", "has_data_structure"}

RECURSIVE NeverReturns(_)
\* the parsing of a value does not come to an end
NeverReturns(value) ==
    \/ value[1] = "diverges"
    \/ /\ value[1] = "obj"
       /\ \E f \in DataEntityFields : NeverReturns(value[2][f])

\* the node one reference hop from a node, the node itself when it declares none
ReferenceTarget(kg, iri) ==
    IF query_data_entity_reference_iri(kg, iri) = {} THEN iri
    ELSE CHOOSE r \in query_data_entity_reference_iri(kg, iri) : TRUE

\* the literals a node has under a property, as field values
PlainValues(kg, iri, predicate) == {TermValue(o) : o \in ObjectsOf(kg, iri, predicate)}

\* C24 as claimed: parse_data_entity_by_iri returns nothing when the node has no class
\* under DataEntity; otherwise it returns, whatever chain or cycle the reference links
\* form, an object of the node whose source is the one of the node one reference hop away
C24_DataEntityParseReturns ==
    parsed[1] # NoIri =>
        /\ parsed[2] = NoneValue <=>
              query_entity_parent_iri(input_kg, parsed[1], DataEntityIri) = {}
        /\ parsed[2] # NoneValue =>
              /\ ~NeverReturns(parsed[2])
              /\ parsed[2][1] = "obj"
              /\ parsed[2][2].iri = parsed[1]
              /\ parsed[2][2].has_source \in
                    PlainValues(input_kg, ReferenceTarget(input_kg, parsed[1]), HasSource)
                    \cup (IF ObjectsOf(input_kg, ReferenceTarget(input_kg, parsed[1]),
                                       HasSource) = {}
                          THEN {NoneValue} ELSE {})

\* the schema graphs an executing engine combined with the file it loaded
LoadedSchemaGraphs ==
    SchemaGraph(TOP) \cup SchemaGraph(NamespaceOf(bottom_level_schema)) \cup SchemaGraph(VISU)

\* one step of the engines: no output triple is removed, the schema graphs of the
\* constructing engine are what they were, and so is the graph an executing engine
\* combined from the schema graphs and its file once it is loaded
C25_StepKeepsTriples ==
    /\ output_kg \subseteq output_kg'
    /\ schema_kg' = schema_kg
    /\ pc # "idle" => input_kg' = input_kg
    /\ pc' \in {"loaded", "running", "populating", "done"} => LoadedSchemaGraphs' \subseteq input_kg'

\* C25: the output graph is empty when an engine is created and no construction
\* operation ever removes a triple of it; no construction or execution operation changes
\* the schema graphs after they are loaded
C25_OutputGrowsSchemaFixed == output_kg = {} /\ [][C25_StepKeepsTriples]_vars

\* two tasks were added, the graph was saved, loaded with the schema graphs and run
C25_Witness ==
    /\ pc = "done"
    /\ Len(created) = 2
    /\ Len(visited) = 2
    /\ saved_kg = output_kg
    /\ schema_kg \subseteq input_kg
    /\ \E t \in output_kg : t[2] = HasNextTask

\* a step is an add_task call on an engine whose create_pipeline_task was never called
C27_CallWithoutPipeline ==
    /\ ~halted
    /\ last_created_task = NoTask
    /\ last_call' # last_call
    /\ last_call'.op = "add_task"

\* C27: add_task on an engine without a chain head fails before anything is allocated or
\* written: the output graph, the task and method name counters and the chain head are
\* what they were before the call
C27_NoPipelineFailsUntouched ==
    [][C27_CallWithoutPipeline =>
          /\ halted'
          /\ last_call'.status = "NoPipeline"
          /\ output_kg' = output_kg
          /\ task_type_dict' = task_type_dict
          /\ method_type_dict' = method_type_dict
          /\ last_created_task' = last_created_task
          /\ issued' = issued]_vars

\* add_task was called first and the process ended with nothing written
C27_Witness ==
    /\ halted
    /\ last_call.op = "add_task"
    /\ last_call.head = NoTask
    /\ last_call.status = "NoPipeline"
    /\ output_kg = {}
    /\ issued = <<>>

\* the pair add_task matched in the resolver's answer for the arguments of a call
MatchedPair(args) ==
    ChosenPropertyMethod(
        get_method_properties_and_methods(
            SchemaKG, Iri(NamespaceToUse(args.visualization), args.task_type)),
        args.method_type)

\* C28: after a successful add_task the method node of the new task, the node attached
\* by the matched relation, is declared an instance of the method class of the matched
\* pair and of no other class
C28_MethodNodeOfMatchedClass ==
    (last_call.op = "add_task" /\ last_call.status = "ok") =>
        /\ ObjectsOf(output_kg, last_created_task.iri, MatchedPair(last_call.args)[1]) # {}
        /\ \A n \in ObjectsOf(output_kg, last_created_task.iri, MatchedPair(last_call.args)[1]) :
              ObjectsOf(output_kg, n, RDF_TYPE) = {MatchedPair(last_call.args)[2]}

\* every name of a list of issued names is its type followed by the number of names of
\* that kind and type issued up to it
NamedFromOne(names) ==
    \A i \in DOMAIN names :
        names[i][3] = names[i][2] \o ToString(Cardinality(
                          {j \in 1 .. i : names[j][1] = names[i][1] /\ names[j][2] = names[i][2]}))

\* the counter of every type is one more than the names of that type in a list
CountersFollow(type_dict, kind, names) ==
    \A n \in DOMAIN type_dict :
        type_dict[n] = 1 + Cardinality({i \in DOMAIN names : names[i][1] = kind /\ names[i][2] = n})

\* the names each engine issued and its counters are those of its own calls alone
C26_OwnNamesOnly ==
    /\ NamedFromOne(issued)
    /\ NamedFromOne(other.issued)
    /\ CountersFollow(task_type_dict, "task", issued)
    /\ CountersFollow(method_type_dict, "method", issued)
    /\ CountersFollow(other.task_type_dict, "task", other.issued)
    /\ CountersFollow(other.method_type_dict, "method", other.issued)

\* a call on one engine leaves the counters and the names of the other alone
C26_OtherEngineUntouched ==
    /\ other' # other => /\ task_type_dict' = task_type_dict
                         /\ method_type_dict' = method_type_dict
                         /\ issued' = issued
                         /\ output_kg' = output_kg
    /\ last_call' # last_call => other' = other

\* C26: the name counters are owned by the engine instance: however the add_task calls
\* on two engines are interleaved, each engine issues <type>1, <type>2, ... counting its
\* own allocations only, and an allocation in one never advances a counter of the other
C26_CountersPerEngine == []C26_OwnNamesOnly /\ [][C26_OtherEngineUntouched]_vars

\* both engines issued the first name of the same task type, and one of them went on
C26_Witness ==
    /\ \E i \in DOMAIN issued, j \in DOMAIN other.issued :
          /\ issued[i] = other.issued[j]
          /\ issued[i] = <<"task", "NormalizationTask", "NormalizationTask1">>
    /\ \E i \in DOMAIN issued : issued[i] = <<"task", "NormalizationTask", "NormalizationTask2">>
    /\ other.tasks = 1

====
